---- MODULE Spec2Model ----
(***************************************************************************)
(* Check (Zacgoose/Check): the Domain Squatting Detector                   *)
(* (scripts/modules/domain-squatting-detector.js) and the scan scheduler   *)
(* of the content script as described in the flow-analysis documents.      *)
(*                                                                         *)
(* A JavaScript string is a sequence of code points.  An ASCII code point  *)
(* is written as the one-character string itself ("a", "-", "."), any      *)
(* other code point as "U+XXXX".  All code points of the tables below lie  *)
(* in the BMP, so charAt/substring (UTF-16 units) and for..of (code        *)
(* points) index the same positions.                                       *)
(*                                                                         *)
(* A confidence is an exact rational <<numerator, denominator>> in lowest  *)
(* terms with a positive denominator.                                      *)
(***************************************************************************)
EXTENDS Integers, Sequences, FiniteSets, TLC

\* ------------------------------------------------------------------ numbers

Min2(a, b) == IF a <= b THEN a ELSE b

Max2(a, b) == IF a >= b THEN a ELSE b

Abs(a) == IF a < 0 THEN -a ELSE a

RECURSIVE GCD(_, _)
GCD(a, b) == IF b = 0 THEN a ELSE GCD(b, a % b)

Rat(n, d) ==
  LET g == GCD(Abs(n), d)
  IN  IF n = 0 THEN <<0, 1>> ELSE <<n \div g, d \div g>>

RatAdd(x, y) == Rat(x[1] * y[2] + y[1] * x[2], x[2] * y[2])

RatSub(x, y) == Rat(x[1] * y[2] - y[1] * x[2], x[2] * y[2])

RatDivInt(x, k) == Rat(x[1], x[2] * k)

RatLeq(x, y) == x[1] * y[2] <= y[1] * x[2]

RatLt(x, y) == x[1] * y[2] < y[1] * x[2]

RatMin(x, y) == IF RatLeq(x, y) THEN x ELSE y

RatMax(x, y) == IF RatLeq(x, y) THEN y ELSE x

\* ------------------------------------------------------------------ strings

\* String.prototype.substring(start, end): 0-based, end exclusive, both
\* clamped to 0..length and swapped when start > end.
Substring(s, start, end) ==
  LET a == Min2(Max2(start, 0), Len(s))
      b == Min2(Max2(end, 0), Len(s))
  IN  SubSeq(s, Min2(a, b) + 1, Max2(a, b))

\* String.prototype.substring(start)
SubstringFrom(s, start) == Substring(s, start, Len(s))

\* String.prototype.charAt(i): "" (the empty sequence) outside the string.
CharAt(s, i) == IF i >= 0 /\ i < Len(s) THEN <<s[i + 1]>> ELSE <<>>

StartsWith(s, p) == Len(p) <= Len(s) /\ SubSeq(s, 1, Len(p)) = p

EndsWith(s, p) == Len(p) <= Len(s) /\ SubSeq(s, Len(s) - Len(p) + 1, Len(s)) = p

\* String.prototype.indexOf(t): the first 0-based position of t, or -1.
IndexOf(s, t) ==
  LET hits == {i \in 0..(Len(s) - Len(t)) : SubSeq(s, i + 1, i + Len(t)) = t}
  IN  IF hits = {} THEN -1 ELSE CHOOSE i \in hits : \A k \in hits : i <= k

Includes(s, t) == IndexOf(s, t) # -1

\* String.prototype.split(sep) for a one-code-point separator.
RECURSIVE SplitFrom(_, _, _, _)
SplitFrom(s, sep, i, cur) ==
  IF i > Len(s) THEN <<cur>>
  ELSE IF s[i] = sep THEN <<cur>> \o SplitFrom(s, sep, i + 1, <<>>)
  ELSE SplitFrom(s, sep, i + 1, Append(cur, s[i]))

Split(s, sep) == SplitFrom(s, sep, 1, <<>>)

\* Array.prototype.includes
SeqIncludes(seq, x) == \E i \in 1..Len(seq) : seq[i] = x

MinOf(S) == CHOOSE i \in S : \A k \in S : i <= k

\* ------------------------------------------------------------------ tables

homoglyphs ==
  <<
    <<"a", <<"U+00E0", "U+00E1", "U+00E2", "U+00E3", "U+00E4", "U+00E5", "U+0101", "U+0103", "U+0105", "U+03B1", "U+0430">>>>,
    <<"b", <<"U+1E03", "U+1E05", "U+1E07", "U+044C", "U+0432">>>>,
    <<"c", <<"U+0107", "U+0109", "U+010B", "U+00E7", "U+010D", "U+03F2", "U+0441">>>>,
    <<"d", <<"U+010F", "U+1E0B", "U+1E0D", "U+1E0F", "U+1E11", "U+1E13", "U+0501", "U+056A">>>>,
    <<"e", <<"U+00E8", "U+00E9", "U+00EA", "U+00EB", "U+0113", "U+0115", "U+0117", "U+0119", "U+011B", "U+0435", "U+03B5">>>>,
    <<"g", <<"U+011D", "U+011F", "U+0121", "U+0123", "U+0581", "U+01E5">>>>,
    <<"h", <<"U+0125", "U+1E23", "U+1E25", "U+1E27", "U+1E29", "U+1E2B", "U+04BB", "U+0570">>>>,
    <<"i", <<"U+00EC", "U+00ED", "U+00EE", "U+00EF", "U+0129", "U+012B", "U+012D", "U+012F", "U+0131", "U+0456", "U+03B9">>>>,
    <<"j", <<"U+0135", "U+0458">>>>,
    <<"k", <<"U+0137", "U+1E31", "U+1E33", "U+1E35", "U+03BA", "U+043A">>>>,
    <<"l", <<"U+013A", "U+013C", "U+013E", "U+1E37", "U+1E39", "U+1E3B", "U+1E3D", "U+04CF", "U+2113">>>>,
    <<"m", <<"U+1E3F", "U+1E41", "U+1E43", "U+043C", "U+1E41">>>>,
    <<"n", <<"U+00F1", "U+0144", "U+0146", "U+0148", "U+1E45", "U+1E47", "U+1E49", "U+1E4B", "U+043F">>>>,
    <<"o", <<"U+00F2", "U+00F3", "U+00F4", "U+00F5", "U+00F6", "U+00F8", "U+014D", "U+014F", "U+0151", "U+03BF", "U+043E", "U+0585">>>>,
    <<"p", <<"U+1E55", "U+1E57", "U+0440", "U+03C1">>>>,
    <<"q", <<"U+051B">>>>,
    <<"r", <<"U+0155", "U+0157", "U+0159", "U+1E59", "U+1E5B", "U+1E5D", "U+1E5F", "U+0433">>>>,
    <<"s", <<"U+015B", "U+015D", "U+015F", "U+0161", "U+1E61", "U+1E63", "U+1E65", "U+1E67", "U+1E69", "U+0455">>>>,
    <<"t", <<"U+0163", "U+0165", "U+1E6B", "U+1E6D", "U+1E6F", "U+1E71", "U+0442", "U+03C4">>>>,
    <<"u", <<"U+00F9", "U+00FA", "U+00FB", "U+00FC", "U+0169", "U+016B", "U+016D", "U+016F", "U+0171", "U+0173", "U+03C5", "U+0438">>>>,
    <<"v", <<"U+1E7D", "U+1E7F", "U+03BD", "U+0475">>>>,
    <<"w", <<"U+0175", "U+1E81", "U+1E83", "U+1E85", "U+1E87", "U+1E89", "U+1E98", "U+051D">>>>,
    <<"x", <<"U+1E8B", "U+1E8D", "U+0445", "U+03C7">>>>,
    <<"y", <<"U+00FD", "U+00FF", "U+0177", "U+1E8F", "U+1E99", "U+1EF3", "U+1EF5", "U+0443", "U+04AF">>>>,
    <<"z", <<"U+017A", "U+017C", "U+017E", "U+1E91", "U+1E93", "U+1E95", "U+1D22">>>>,
    <<"0", <<"U+043E", "U+03BF", "U+043E", "U+19D0">>>>,
    <<"1", <<"l", "U+0456", "U+04C0", "U+01C0">>>>,
    <<"3", <<"U+0437", "U+0292", "U+021D">>>>,
    <<"5", <<"U+01BD">>>>,
    <<"6", <<"U+0431">>>>,
    <<"8", <<"U+0581">>>>,
    <<"9", <<"U+051B", "U+0581">>>>
  >>

keyboardAdjacent ==
  <<
    <<"q", <<"w", "a">>>>,
    <<"w", <<"q", "e", "s", "a">>>>,
    <<"e", <<"w", "r", "d", "s">>>>,
    <<"r", <<"e", "t", "f", "d">>>>,
    <<"t", <<"r", "y", "g", "f">>>>,
    <<"y", <<"t", "u", "h", "g">>>>,
    <<"u", <<"y", "i", "j", "h">>>>,
    <<"i", <<"u", "o", "k", "j">>>>,
    <<"o", <<"i", "p", "l", "k">>>>,
    <<"p", <<"o", "l">>>>,
    <<"a", <<"q", "w", "s", "z">>>>,
    <<"s", <<"a", "w", "d", "x", "z">>>>,
    <<"d", <<"s", "e", "f", "c", "x">>>>,
    <<"f", <<"d", "r", "g", "v", "c">>>>,
    <<"g", <<"f", "t", "h", "b", "v">>>>,
    <<"h", <<"g", "y", "j", "n", "b">>>>,
    <<"j", <<"h", "u", "k", "m", "n">>>>,
    <<"k", <<"j", "i", "l", "m">>>>,
    <<"l", <<"k", "o", "p">>>>,
    <<"z", <<"a", "s", "x">>>>,
    <<"x", <<"z", "s", "d", "c">>>>,
    <<"c", <<"x", "d", "f", "v">>>>,
    <<"v", <<"c", "f", "g", "b">>>>,
    <<"b", <<"v", "g", "h", "n">>>>,
    <<"n", <<"b", "h", "j", "m">>>>,
    <<"m", <<"n", "j", "k">>>>
  >>

commonCombos ==
  <<
    <<"s", "e", "c", "u", "r", "e">>,
    <<"l", "o", "g", "i", "n">>,
    <<"a", "c", "c", "o", "u", "n", "t">>,
    <<"v", "e", "r", "i", "f", "y">>,
    <<"s", "u", "p", "p", "o", "r", "t">>,
    <<"h", "e", "l", "p">>,
    <<"m", "y">>,
    <<"a", "u", "t", "h">>,
    <<"s", "s", "o">>,
    <<"s", "i", "g", "n", "i", "n">>,
    <<"a", "p", "p">>,
    <<"p", "o", "r", "t", "a", "l">>,
    <<"o", "n", "l", "i", "n", "e">>,
    <<"w", "e", "b">>,
    <<"m", "o", "b", "i", "l", "e">>,
    <<"s", "e", "r", "v", "i", "c", "e">>,
    <<"o", "f", "f", "i", "c", "i", "a", "l">>,
    <<"v", "e", "r", "i", "f", "i", "e", "d">>,
    <<"s", "a", "f", "e">>
  >>

\* ------------------------------------------------------------------ example strings

L_microsoft == <<"m", "i", "c", "r", "o", "s", "o", "f", "t">>

L_microsoftonline == <<"m", "i", "c", "r", "o", "s", "o", "f", "t", "o", "n", "l", "i", "n", "e">>

L_microsoftonlin == <<"m", "i", "c", "r", "o", "s", "o", "f", "t", "o", "n", "l", "i", "n">>

L_micrsoft == <<"m", "i", "c", "r", "s", "o", "f", "t">>

L_yourcompany == <<"y", "o", "u", "r", "c", "o", "m", "p", "a", "n", "y">>

L_example == <<"e", "x", "a", "m", "p", "l", "e">>

L_com == <<"c", "o", "m">>

L_net == <<"n", "e", "t">>

L_org == <<"o", "r", "g">>

L_co == <<"c", "o">>

L_uk == <<"u", "k">>

L_login_microsoft == <<"l", "o", "g", "i", "n", "-", "m", "i", "c", "r", "o", "s", "o", "f", "t">>

L_your_company == <<"y", "o", "u", "r", "-", "c", "o", "m", "p", "a", "n", "y">>

L_micr0soft_cyr == <<"m", "i", "c", "r", "U+043E", "s", "o", "f", "t">>

PortSuffix == <<":", "8", "4", "4", "3">>

PathSuffix == <<"/", "l", "o", "g", "i", "n">>

AllowYourCompany == <<"h", "t", "t", "p", "s", ":", "/", "/", "y", "o", "u", "r", "c", "o", "m", "p", "a", "n", "y", ".", "c", "o", "m", "/", "*">>

AllowExampleRegex == <<"^", "h", "t", "t", "p", "s", ":", "/", "/", "e", "x", "a", "m", "p", "l", "e", "\\", ".", "c", "o", "\\", ".", "u", "k", "$">>

AllowWildcard == <<"*", ".", "c", "o", "n", "t", "o", "s", "o", ".", "c", "o", "m">>

L_www == <<"w", "w", "w">>

L_localhost == <<"l", "o", "c", "a", "l", "h", "o", "s", "t">>
\* ------------------------------------------------------------------ state

\* The fields of the DomainSquattingDetector instance, and the call made on
\* it (or on one of its methods) with what it returned.
VARIABLES protectedDomains, enabled, deviationThreshold, algorithms

\* The detector call in progress or last returned: its name, arguments,
\* loop position and return value.
VARIABLE call

\* The content script's module-level state.  Times are in units of 100 ms;
\* a timer is the time it falls due, NoTimer when none is pending.
VARIABLES now, escalatedToBlock, showingBanner, protectionActive, scanCount,
          lastScanTime, pageSource, lastPageSourceHash, domObserver,
          domScanTimeout, scheduledRescanTimeout, threatTriggeredRescanCount,
          fallbackInterval, lastProcessingTime, backgroundProcessingActive,
          evaluating

\* The processing time of the first scan of the page that finished, "none"
\* before: a record of the past that the script does not keep.
VARIABLE firstProcessingTime


detectorVars == <<protectedDomains, enabled, deviationThreshold, algorithms>>

schedulerVars ==
  <<now, escalatedToBlock, showingBanner, protectionActive, scanCount,
    lastScanTime, pageSource, lastPageSourceHash, domObserver,
    domScanTimeout, scheduledRescanTimeout, threatTriggeredRescanCount,
    fallbackInterval, lastProcessingTime, firstProcessingTime,
    backgroundProcessingActive, evaluating>>

gateVars == <<protectionActive, scanCount, lastScanTime, lastPageSourceHash, evaluating>>

vars == <<protectedDomains, enabled, deviationThreshold, algorithms, call, schedulerVars>>


\* ------------------------------------------------------------------ homoglyphs

\* The null a detection returns when it does not fire.
Null == [technique |-> "null"]

Digits == {"0", "1", "2", "3", "4", "5", "6", "7", "8", "9"}

IsIntegerKey(e) == e[1] \in Digits

IsStringKey(e) == e[1] \notin Digits

\* Object.entries(obj): integer-like keys first, in ascending order (the
\* table lists them ascending), then the other keys in insertion order.
ObjectEntries(obj) == SelectSeq(obj, IsIntegerKey) \o SelectSeq(obj, IsStringKey)

MaxOf(S) == CHOOSE i \in S : \A k \in S : i >= k

\* buildReverseHomoglyphMap(): every variant of every entry becomes a key; a
\* later entry of Object.entries overwrites an earlier one, so a variant maps
\* to the base of the last entry that lists it.
buildReverseHomoglyphMap ==
  LET entries == ObjectEntries(homoglyphs)
      variants == UNION {{entries[k][2][v] : v \in 1..Len(entries[k][2])} :
                           k \in 1..Len(entries)}
  IN  [variant \in variants |->
         entries[MaxOf({k \in 1..Len(entries) : SeqIncludes(entries[k][2], variant)})][1]]

homoglyphReverse == buildReverseHomoglyphMap

\* this.homoglyphReverse[char] || char
NormalizeChar(char) ==
  IF char \in DOMAIN homoglyphReverse THEN homoglyphReverse[char] ELSE char

normalizeHomoglyphs(domain) == [i \in 1..Len(domain) |-> NormalizeChar(domain[i])]

\* ------------------------------------------------------------------ Levenshtein

\* A cell that forgets the substitution: the minimum of insertion and deletion.
LevCellNoSubstitution(same, diag, left, up) ==
  IF same THEN diag ELSE Min2(left + 1, up + 1)

\* One cell of the matrix (lines 301-309).
LevCell(same, diag, left, up) ==
  IF same THEN diag ELSE Min2(diag + 1, Min2(left + 1, up + 1))

\* Row i of the matrix from row i-1; cur holds matrix[i][0..Len(cur)-1].
RECURSIVE LevRow(_, _, _, _, _)
LevRow(str1, str2, i, prev, cur) ==
  LET j == Len(cur)
  IN  IF j > Len(str1) THEN cur
      ELSE LevRow(str1, str2, i, prev,
                  Append(cur, LevCell(str2[i] = str1[j], prev[j], cur[j], prev[j + 1])))

\* Rows 1..Len(str2) in turn; each row is complete before the next is started.
RECURSIVE LevRows(_, _, _, _)
LevRows(str1, str2, i, prev) ==
  IF i > Len(str2) THEN prev
  ELSE LET row == LevRow(str1, str2, i, prev, <<i>>)
       IN  IF Len(row) = Len(prev) THEN LevRows(str1, str2, i + 1, row) ELSE row

levenshteinDistance(str1, str2) ==
  LevRows(str1, str2, 1, [j \in 1..(Len(str1) + 1) |-> j - 1])[Len(str1) + 1]

\* A Levenshtein check that leaves out a distance equal to the threshold.
detectLevenshteinBelowThreshold(testDomain, protectedDomain) ==
  LET distance == levenshteinDistance(testDomain, protectedDomain)
  IN  IF distance > 0 /\ distance < deviationThreshold
      THEN [technique |-> "levenshtein",
            distance |-> distance,
            confidence |-> RatSub(Rat(1, 1), Rat(distance, deviationThreshold))]
      ELSE Null

detectLevenshtein(testDomain, protectedDomain) ==
  LET distance == levenshteinDistance(testDomain, protectedDomain)
  IN  IF distance > 0 /\ distance <= deviationThreshold
      THEN [technique |-> "levenshtein",
            distance |-> distance,
            confidence |-> RatSub(Rat(1, 1), Rat(distance, deviationThreshold))]
      ELSE Null

\* A homoglyph check that does not ask whether normalization changed the label.
detectHomoglyphAnyLabel(testDomain, protectedDomain) ==
  LET normalized == normalizeHomoglyphs(testDomain)
      distance == levenshteinDistance(normalized, protectedDomain)
  IN  IF normalized = protectedDomain
      THEN [technique |-> "homoglyph",
            original |-> testDomain,
            normalized |-> normalized,
            confidence |-> Rat(95, 100)]
      ELSE IF distance > 0 /\ distance <= deviationThreshold
      THEN [technique |-> "homoglyph",
            original |-> testDomain,
            normalized |-> normalized,
            distance |-> distance,
            confidence |-> RatSub(Rat(85, 100), Rat(distance, 10))]
      ELSE Null

detectHomoglyph(testDomain, protectedDomain) ==
  LET normalized == normalizeHomoglyphs(testDomain)
      distance == levenshteinDistance(normalized, protectedDomain)
  IN  IF normalized # testDomain /\ normalized = protectedDomain
      THEN [technique |-> "homoglyph",
            original |-> testDomain,
            normalized |-> normalized,
            confidence |-> Rat(95, 100)]
      ELSE IF normalized # testDomain /\ distance > 0 /\ distance <= deviationThreshold
      THEN [technique |-> "homoglyph",
            original |-> testDomain,
            normalized |-> normalized,
            distance |-> distance,
            confidence |-> RatSub(Rat(85, 100), Rat(distance, 10))]
      ELSE Null

\* ------------------------------------------------------------------ typosquat

AdjacentKeys(char) ==
  LET hits == {k \in 1..Len(keyboardAdjacent) : <<keyboardAdjacent[k][1]>> = char}
  IN  IF hits = {} THEN <<>> ELSE keyboardAdjacent[MinOf(hits)][2]

\* A transposition that leaves the label as it is.
SwappedKeepsOrder(p, i) == p

Swapped(p, i) ==
  Substring(p, 0, i) \o CharAt(p, i + 1) \o CharAt(p, i) \o SubstringFrom(p, i + 2)

Missing(p, i) == Substring(p, 0, i) \o SubstringFrom(p, i + 1)

Duplicated(p, i) == Substring(p, 0, i + 1) \o CharAt(p, i) \o SubstringFrom(p, i + 1)

Substituted(p, i, key) == Substring(p, 0, i) \o <<key>> \o SubstringFrom(p, i + 1)

detectTyposquat(testDomain, protectedDomain) ==
  LET n == Len(protectedDomain)
      swaps == {i \in 0..(n - 2) : Swapped(protectedDomain, i) = testDomain}
      omissions == {i \in 0..(n - 1) : Missing(protectedDomain, i) = testDomain}
      duplications == {i \in 0..(n - 1) : Duplicated(protectedDomain, i) = testDomain}
      substitutions ==
        {i \in 0..(n - 1) :
           \E k \in 1..Len(AdjacentKeys(CharAt(protectedDomain, i))) :
             Substituted(protectedDomain, i, AdjacentKeys(CharAt(protectedDomain, i))[k])
               = testDomain}
  IN  IF swaps # {}
      THEN [technique |-> "typosquat", pattern |-> "character_swap",
            position |-> MinOf(swaps), confidence |-> Rat(9, 10)]
      ELSE IF omissions # {}
      THEN [technique |-> "typosquat", pattern |-> "character_omission",
            position |-> MinOf(omissions), confidence |-> Rat(85, 100)]
      ELSE IF duplications # {}
      THEN [technique |-> "typosquat", pattern |-> "character_duplication",
            position |-> MinOf(duplications), confidence |-> Rat(85, 100)]
      ELSE IF substitutions # {}
      THEN [technique |-> "typosquat", pattern |-> "adjacent_key_substitution",
            position |-> MinOf(substitutions),
            original |-> CharAt(protectedDomain, MinOf(substitutions)),
            substituted |-> CharAt(testDomain, MinOf(substitutions)),
            confidence |-> Rat(8, 10)]
      ELSE Null

\* ------------------------------------------------------------------ combosquat

separators == << <<"-">>, <<"_">>, <<>> >>

HasCommonCombo(prefix, suffix) ==
  \E k \in 1..Len(commonCombos) :
    Includes(prefix, commonCombos[k]) \/ Includes(suffix, commonCombos[k])

detectCombosquat(testDomain, protectedDomain) ==
  LET at == IndexOf(testDomain, protectedDomain)
      prefix == Substring(testDomain, 0, at)
      suffix == SubstringFrom(testDomain, at + Len(protectedDomain))
      seps == {k \in 1..Len(separators) :
                 \/ StartsWith(testDomain, protectedDomain \o separators[k])
                 \/ EndsWith(testDomain, separators[k] \o protectedDomain)}
  IN  IF Includes(testDomain, protectedDomain) /\ testDomain # protectedDomain
         /\ HasCommonCombo(prefix, suffix)
      THEN [technique |-> "combosquat", pattern |-> "common_combo",
            prefix |-> prefix, suffix |-> suffix, confidence |-> Rat(9, 10)]
      ELSE IF Includes(testDomain, protectedDomain) /\ testDomain # protectedDomain
              /\ (prefix # <<>> \/ suffix # <<>>)
      THEN [technique |-> "combosquat", pattern |-> "generic_combo",
            prefix |-> prefix, suffix |-> suffix, confidence |-> Rat(7, 10)]
      ELSE IF seps # {}
      THEN [technique |-> "combosquat", pattern |-> "separator_combo",
            separator |-> separators[MinOf(seps)], confidence |-> Rat(75, 100)]
      ELSE Null

\* ------------------------------------------------------------------ aggregation

RECURSIVE MaxConfidence(_, _)
MaxConfidence(detections, k) ==
  IF k = Len(detections) THEN detections[k].confidence
  ELSE RatMax(detections[k].confidence, MaxConfidence(detections, k + 1))

RECURSIVE SumConfidence(_, _)
SumConfidence(detections, k) ==
  IF k > Len(detections) THEN Rat(0, 1)
  ELSE RatAdd(detections[k].confidence, SumConfidence(detections, k + 1))

\* The bands with > for >=.
calculateSeverityStrict(detections) ==
  LET maxConfidence == MaxConfidence(detections, 1)
  IN  IF RatLt(Rat(9, 10), maxConfidence) THEN "critical"
      ELSE IF RatLt(Rat(8, 10), maxConfidence) THEN "high"
      ELSE IF RatLt(Rat(6, 10), maxConfidence) THEN "medium"
      ELSE "low"

\* calculateSeverity is only called with a non-empty list (line 240).
calculateSeverity(detections) ==
  LET maxConfidence == MaxConfidence(detections, 1)
  IN  IF RatLeq(Rat(9, 10), maxConfidence) THEN "critical"
      ELSE IF RatLeq(Rat(8, 10), maxConfidence) THEN "high"
      ELSE IF RatLeq(Rat(6, 10), maxConfidence) THEN "medium"
      ELSE "low"

calculateConfidence(detections) ==
  IF Len(detections) = 0 THEN Rat(0, 1)
  ELSE LET avgConfidence == RatDivInt(SumConfidence(detections, 1), Len(detections))
           multiTechniqueBonus == IF Len(detections) > 1 THEN Rat(1, 10) ELSE Rat(0, 1)
       IN  RatMin(Rat(99, 100), RatAdd(avgConfidence, multiTechniqueBonus))

\* ------------------------------------------------------------------ base label

HttpScheme == <<"h", "t", "t", "p", ":", "/", "/">>

HttpsScheme == <<"h", "t", "t", "p", "s", ":", "/", "/">>

\* domain.replace(/^https?:\/\//, '')
RemoveProtocol(domain) ==
  IF StartsWith(domain, HttpsScheme) THEN SubstringFrom(domain, Len(HttpsScheme))
  ELSE IF StartsWith(domain, HttpScheme) THEN SubstringFrom(domain, Len(HttpScheme))
  ELSE domain

twoPartTLDs ==
  << <<"c", "o">>, <<"c", "o", "m">>, <<"n", "e", "t">>,
     <<"o", "r", "g">>, <<"g", "o", "v">>, <<"e", "d", "u">> >>

\* The base label without the two-part suffix rule.
extractBaseDomainOneSuffix(domain) ==
  IF domain = <<>> THEN <<>>
  ELSE LET noProtocol == RemoveProtocol(domain)
           noPath == Split(noProtocol, "/")[1]
           noPort == Split(noPath, ":")[1]
           parts == Split(noPort, ".")
           n == Len(parts)
       IN  IF n >= 2 THEN parts[n - 1] ELSE parts[1]

extractBaseDomain(domain) ==
  IF domain = <<>> THEN <<>>
  ELSE LET noProtocol == RemoveProtocol(domain)
           noPath == Split(noProtocol, "/")[1]
           noPort == Split(noPath, ":")[1]
           parts == Split(noPort, ".")
           n == Len(parts)
       IN  IF n >= 2
           THEN IF n >= 3 /\ SeqIncludes(twoPartTLDs, parts[n - 1])
                THEN parts[n - 2]
                ELSE parts[n - 1]
           ELSE parts[1]

\* ------------------------------------------------------------------ checkDomain

Keep(result) == IF result = Null THEN <<>> ELSE <<result>>

\* The body of the loop of checkDomain for one protected domain (lines 208-237).
RunDetections(testBase, protectedBase) ==
     (IF algorithms.levenshtein THEN Keep(detectLevenshtein(testBase, protectedBase)) ELSE <<>>)
  \o (IF algorithms.homoglyph THEN Keep(detectHomoglyph(testBase, protectedBase)) ELSE <<>>)
  \o (IF algorithms.typosquat THEN Keep(detectTyposquat(testBase, protectedBase)) ELSE <<>>)
  \o (IF algorithms.combosquat THEN Keep(detectCombosquat(testBase, protectedBase)) ELSE <<>>)

Verdict(testDomain, protectedDomain, detections) ==
  [detected |-> TRUE,
   testDomain |-> testDomain,
   protectedDomain |-> protectedDomain,
   techniques |-> detections,
   severity |-> calculateSeverity(detections),
   confidence |-> calculateConfidence(detections)]

\* A loop body that runs the techniques on identical base labels too.
CheckOneIdenticalToo(testDomain, k) ==
  LET testBase == extractBaseDomain(testDomain)
      protectedBase == extractBaseDomain(protectedDomains[k])
      detections == RunDetections(testBase, protectedBase)
  IN  IF Len(detections) > 0 THEN Verdict(testDomain, protectedDomains[k], detections)
      ELSE Null

\* One iteration of the loop of checkDomain at list position k (1-based):
\* "skip" (identical bases), "none" (no technique fired) or the verdict.
CheckOne(testDomain, k) ==
  LET testBase == extractBaseDomain(testDomain)
      protectedBase == extractBaseDomain(protectedDomains[k])
      detections == RunDetections(testBase, protectedBase)
  IN  IF testBase = protectedBase THEN Null
      ELSE IF Len(detections) > 0 THEN Verdict(testDomain, protectedDomains[k], detections)
      ELSE Null

\* checkDomain(testDomain) from list position k on: the returned value and
\* the last list position the loop visited.
RECURSIVE CheckFrom(_, _)
CheckFrom(testDomain, k) ==
  IF k > Len(protectedDomains) THEN [ret |-> Null, visited |-> Len(protectedDomains)]
  ELSE LET one == CheckOne(testDomain, k)
       IN  IF one # Null THEN [ret |-> one, visited |-> k]
           ELSE CheckFrom(testDomain, k + 1)

\* checkDomain that keeps looking and returns the last protected domain
\* against which a technique fires.
RECURSIVE CheckLast(_, _, _)
CheckLast(testDomain, k, found) ==
  IF k > Len(protectedDomains) THEN found
  ELSE LET one == CheckOne(testDomain, k)
       IN  IF one # Null THEN CheckLast(testDomain, k + 1, [ret |-> one, visited |-> k])
           ELSE CheckLast(testDomain, k + 1, found)

checkDomainLastMatch(testDomain) ==
  IF ~enabled \/ testDomain = <<>> THEN [ret |-> Null, visited |-> 0]
  ELSE CheckLast(testDomain, 1, [ret |-> Null, visited |-> Len(protectedDomains)])

checkDomain(testDomain) ==
  IF ~enabled \/ testDomain = <<>> THEN [ret |-> Null, visited |-> 0]
  ELSE CheckFrom(testDomain, 1)

\* ------------------------------------------------------------------ allowlist

LowerLetters ==
  {"a", "b", "c", "d", "e", "f", "g", "h", "i", "j", "k", "l", "m",
   "n", "o", "p", "q", "r", "s", "t", "u", "v", "w", "x", "y", "z"}

UpperSeq ==
  <<"A", "B", "C", "D", "E", "F", "G", "H", "I", "J", "K", "L", "M",
    "N", "O", "P", "Q", "R", "S", "T", "U", "V", "W", "X", "Y", "Z">>

LowerSeq ==
  <<"a", "b", "c", "d", "e", "f", "g", "h", "i", "j", "k", "l", "m",
    "n", "o", "p", "q", "r", "s", "t", "u", "v", "w", "x", "y", "z">>

UpperLetters == {UpperSeq[k] : k \in 1..Len(UpperSeq)}

\* [a-zA-Z0-9]
Alnum == LowerLetters \cup UpperLetters \cup Digits

\* [\w\-\.]
HostChars == Alnum \cup {"_", "-", "."}

ToLowerChar(c) ==
  IF c \in UpperLetters
  THEN LowerSeq[CHOOSE k \in 1..Len(UpperSeq) : UpperSeq[k] = c]
  ELSE c

ToLowerCase(s) == [i \in 1..Len(s) |-> ToLowerChar(s[i])]

RECURSIVE Trim(_)
Trim(s) ==
  IF s # <<>> /\ s[1] = " " THEN Trim(Tail(s))
  ELSE IF s # <<>> /\ s[Len(s)] = " " THEN Trim(SubSeq(s, 1, Len(s) - 1))
  ELSE s

RemoveAll(s, c) == SelectSeq(s, LAMBDA x : x # c)

\* pattern.trim().replace(/^\^/, '').replace(/\$$/, '').replace(/\\/g, '')
CleanPattern(pattern) ==
  LET t == Trim(pattern)
      a == IF t # <<>> /\ t[1] = "^" THEN Tail(t) ELSE t
      b == IF a # <<>> /\ a[Len(a)] = "$" THEN SubSeq(a, 1, Len(a) - 1) ELSE a
  IN  RemoveAll(b, "\\")

\* The capture group ([a-zA-Z0-9][\w\-\.]*[a-zA-Z0-9]) matched at the start
\* of s: greedy, so it ends at the last alphanumeric of the leading run of
\* [\w\-\.]; <<>> when it does not match.
MatchHost(s) ==
  LET run == {e \in 1..Len(s) : \A k \in 1..e : s[k] \in HostChars}
      ends == {q \in run : q >= 2 /\ s[q] \in Alnum}
  IN  IF s # <<>> /\ s[1] \in Alnum /\ ends # {} THEN SubSeq(s, 1, MaxOf(ends)) ELSE <<>>

\* cleaned.match(/^(?:https?:\/\/)?([a-zA-Z0-9][\w\-\.]*[a-zA-Z0-9])/): the
\* optional scheme is taken first and given back when the rest fails.
UrlMatch(cleaned) ==
  LET rest == RemoveProtocol(cleaned)
      host == MatchHost(rest)
  IN  IF rest # cleaned /\ host # <<>> THEN host ELSE MatchHost(cleaned)

\* Lines 104-122 for one pattern: the extracted domain, or <<>>.  On a match
\* of [\w\-\.]* with alphanumeric ends the wildcard, group and special
\* character removals of lines 108-117 change nothing; the splits are kept.
ExtractDomain(pattern) ==
  LET m == UrlMatch(CleanPattern(pattern))
      domain == Split(Split(Split(m, "/")[1], "?")[1], "#")[1]
  IN  IF m # <<>> /\ domain # <<>> /\ Includes(domain, <<".">>) /\ Len(domain) > 3
      THEN ToLowerCase(domain)
      ELSE <<>>

\* [...new Set(seq)]: first occurrences, in order.
RECURSIVE Dedupe(_)
Dedupe(seq) ==
  IF seq = <<>> THEN <<>>
  ELSE LET front == Dedupe(SubSeq(seq, 1, Len(seq) - 1))
       IN  IF SeqIncludes(front, seq[Len(seq)]) THEN front ELSE Append(front, seq[Len(seq)])

RECURSIVE ExtractAll(_, _)
ExtractAll(allowlist, k) ==
  IF k > Len(allowlist) THEN <<>>
  ELSE LET domain == ExtractDomain(allowlist[k])
       IN  (IF domain = <<>> THEN <<>> ELSE <<domain>>) \o ExtractAll(allowlist, k + 1)

extractDomainsFromAllowlist(allowlist) == Dedupe(ExtractAll(allowlist, 1))

\* ------------------------------------------------------------------ initialize

DefaultAlgorithms ==
  [levenshtein |-> TRUE, homoglyph |-> TRUE, typosquat |-> TRUE, combosquat |-> TRUE]

\* { ...this.algorithms, ...override }: a key the override does not carry
\* ("undefined") keeps its current value.
MergeAlgorithms(current, override) ==
  [a \in DOMAIN current |->
     IF override[a] = "undefined" THEN current[a] ELSE override[a] = "true"]

\* The detector fields after initialize(config, urlAllowlist).  A config is
\*   [kind |-> "null"]                          null / undefined
\*   [kind |-> "object", domain_squatting |-> FALSE]   no such key
\*   [kind |-> "object", domain_squatting |-> TRUE, enabled, protected_domains,
\*    deviation_threshold, algorithms]
\* where enabled is "undefined", "true" or "false", deviation_threshold 0
\* stands for an absent (or zero) value and algorithms is the overriding
\* record.  Reading config.domain_squatting of a null
\* config throws; the catch of line 164 logs and returns.
InitializeFields(config, urlAllowlist) ==
  IF config.kind = "null"
  THEN [protectedDomains |-> protectedDomains, enabled |-> enabled,
        deviationThreshold |-> deviationThreshold, algorithms |-> algorithms,
        failed |-> TRUE]
  ELSE LET fromRules ==
             IF config.domain_squatting
             THEN [protectedDomains |-> config.protected_domains,
                   enabled |-> config.enabled # "false",
                   deviationThreshold |->
                     IF config.deviation_threshold # 0
                     THEN config.deviation_threshold ELSE 2,
                   algorithms |-> MergeAlgorithms(algorithms, config.algorithms)]
             ELSE [protectedDomains |-> protectedDomains, enabled |-> enabled,
                   deviationThreshold |-> deviationThreshold, algorithms |-> algorithms]
           allowlistDomains == extractDomainsFromAllowlist(urlAllowlist)
       IN  [protectedDomains |->
              IF Len(allowlistDomains) > 0
              THEN Dedupe(fromRules.protectedDomains \o allowlistDomains)
              ELSE fromRules.protectedDomains,
            enabled |-> fromRules.enabled,
            deviationThreshold |-> fromRules.deviationThreshold,
            algorithms |-> fromRules.algorithms,
            failed |-> FALSE]

\* updateConfig(config): the detector fields afterwards.  has_* tells whether
\* the key is present (for protected_domains: truthy, which an empty array is).
UpdateConfigFields(config) ==
  [protectedDomains |->
     IF config.has_protected_domains THEN config.protected_domains ELSE protectedDomains,
   enabled |-> IF config.has_enabled THEN config.enabled ELSE enabled,
   deviationThreshold |->
     IF config.has_deviation_threshold THEN config.deviation_threshold
     ELSE deviationThreshold,
   algorithms |-> MergeAlgorithms(algorithms, config.algorithms)]

\* ------------------------------------------------------------------ inputs

MaxThreshold == 2

MaxLabelLen == 3

MaxDetections == 2

MaxTime == 36

TickLength == 5

MaxIndicators == 2

MaxRules == 3

\* A deviation threshold as wide as the longest protected label.
WideThreshold == 9

\* A URL or host name by its components; Render is the string handed to
\* checkDomain or listed as a protected domain.
RECURSIVE JoinLabels(_)
JoinLabels(labels) ==
  IF Len(labels) = 1 THEN labels[1]
  ELSE labels[1] \o <<".">> \o JoinLabels(Tail(labels))

Render(url) == url.scheme \o JoinLabels(url.labels) \o url.port \o url.path

Host(labels) == [scheme |-> <<>>, labels |-> labels, port |-> <<>>, path |-> <<>>]

DecoratedHosts == {<<L_microsoft, L_co, L_uk>>}

PlainHosts ==
  {<<L_microsoftonlin, L_com>>, <<L_micrsoft, L_com>>, <<L_login_microsoft, L_com>>,
   <<L_microsoft, L_com>>, <<L_microsoftonline, L_com>>, <<L_www, L_microsoft, L_net>>,
   <<L_yourcompany, L_net>>, <<L_your_company, L_com>>, <<L_example, L_org>>,
   <<L_example, L_com, L_uk>>, <<L_micr0soft_cyr, L_com>>, <<L_localhost>>}

TestUrls ==
  {Host(h) : h \in PlainHosts \cup DecoratedHosts}
  \cup [scheme : {HttpScheme, HttpsScheme}, labels : DecoratedHosts,
        port : {<<>>, PortSuffix}, path : {<<>>, PathSuffix}]

RenderAll(urls) == [k \in 1..Len(urls) |-> Render(urls[k])]

\* Protected-domain lists of the rules file: the documented brand list in
\* its order, and one whose first entry carries a scheme, a path and a
\* two-part suffix.
BrandUrls == <<Host(<<L_microsoft, L_com>>), Host(<<L_microsoftonline, L_com>>)>>

BrandList == RenderAll(BrandUrls)

DecoratedUrls ==
  <<[scheme |-> HttpsScheme, labels |-> <<L_example, L_co, L_uk>>,
     port |-> <<>>, path |-> <<"/">>],
    Host(<<L_microsoft, L_com>>)>>

DecoratedList == RenderAll(DecoratedUrls)

ProtectedLists == {BrandList, DecoratedList}

NoOverride ==
  [levenshtein |-> "undefined", homoglyph |-> "undefined",
   typosquat |-> "undefined", combosquat |-> "undefined"]

LevenshteinOff == [NoOverride EXCEPT !.levenshtein = "false"]

AllOn ==
  [levenshtein |-> "true", homoglyph |-> "true", typosquat |-> "true", combosquat |-> "true"]

SquattingConfig(isEnabled, domains, threshold, override) ==
  [kind |-> "object", domain_squatting |-> TRUE, enabled |-> isEnabled,
   protected_domains |-> domains, deviation_threshold |-> threshold,
   algorithms |-> override]

InitConfigs ==
  {[kind |-> "null"], [kind |-> "object", domain_squatting |-> FALSE]}
  \cup {SquattingConfig("undefined", domains, 0, NoOverride) :
          domains \in ProtectedLists \cup {<<>>}}
  \cup {SquattingConfig("false", BrandList, 0, NoOverride),
        SquattingConfig("undefined", BrandList, 0, LevenshteinOff)}

Allowlists == {<<>>, <<AllowExampleRegex, AllowWildcard>>, <<AllowYourCompany>>}

PartialConfig ==
  [has_enabled |-> FALSE, enabled |-> TRUE,
   has_protected_domains |-> FALSE, protected_domains |-> <<>>,
   has_deviation_threshold |-> FALSE, deviation_threshold |-> 0,
   algorithms |-> NoOverride]

UpdateConfigs ==
  {[PartialConfig EXCEPT !.has_enabled = TRUE, !.enabled = b] : b \in BOOLEAN}
  \cup {[PartialConfig EXCEPT !.has_deviation_threshold = TRUE,
                              !.deviation_threshold = t] : t \in 1..MaxThreshold}
  \cup {[PartialConfig EXCEPT !.algorithms = AllOn],
        [PartialConfig EXCEPT !.has_protected_domains = TRUE,
                              !.protected_domains = BrandList]}

\* ------------------------------------------------------------------ detector actions

\* A call starts on an idle detector: the object is used from one thread and
\* no method calls another public one re-entrantly.
Idle == call.op = "none"

\* new DomainSquattingDetector()
DetectorConstructed ==
  /\ protectedDomains = <<>>
  /\ enabled = TRUE
  /\ deviationThreshold = 2
  /\ algorithms = DefaultAlgorithms

Initialize(config, urlAllowlist) ==
  LET after == InitializeFields(config, urlAllowlist)
  IN  /\ Idle
      /\ protectedDomains' = after.protectedDomains
      /\ enabled' = after.enabled
      /\ deviationThreshold' = after.deviationThreshold
      /\ algorithms' = after.algorithms
      \* the whole body sits in try/catch and the catch only logs: the promise
      \* the async method returns is fulfilled whether or not the body threw
      /\ call' = [op |-> "initialize", failed |-> after.failed,
                  settled |-> "fulfilled"]
      /\ UNCHANGED schedulerVars

UpdateConfig(config) ==
  LET after == UpdateConfigFields(config)
  IN  /\ Idle
      /\ protectedDomains' = after.protectedDomains
      /\ enabled' = after.enabled
      /\ deviationThreshold' = after.deviationThreshold
      /\ algorithms' = after.algorithms
      /\ call' = [op |-> "updateConfig"]
      /\ UNCHANGED schedulerVars

CheckDomain(url) ==
  LET result == checkDomain(Render(url))
  IN  /\ Idle
      /\ call' = [op |-> "checkDomain", url |-> url, testDomain |-> Render(url),
                  ret |-> result.ret, visited |-> result.visited]
      /\ UNCHANGED <<detectorVars, schedulerVars>>

\* The caller takes over again.
Return ==
  /\ call.op \in {"initialize", "updateConfig", "checkDomain"}
  /\ call' = [op |-> "none"]
  /\ UNCHANGED <<detectorVars, schedulerVars>>

\* ------------------------------------------------------------------ outcome

\* aggregate(indicatorMatches, squattingVerdict): the matched indicators by
\* their action ("warn" or "block") and severity, the verdict by its
\* severity, "none" for no verdict.
HasAction(indicatorMatches, action) ==
  \E k \in 1..Len(indicatorMatches) : indicatorMatches[k].action = action

\* An aggregator that lets only indicators force a block.
aggregateIndicatorsOnly(indicatorMatches, verdictSeverity) ==
  IF HasAction(indicatorMatches, "block") THEN [action |-> "block"]
  ELSE IF HasAction(indicatorMatches, "warn")
          \/ verdictSeverity \in {"critical", "high", "medium"}
  THEN [action |-> "warn"]
  ELSE [action |-> "allow"]

aggregate(indicatorMatches, verdictSeverity) ==
  IF HasAction(indicatorMatches, "block") \/ verdictSeverity = "critical"
  THEN [action |-> "block"]
  ELSE IF HasAction(indicatorMatches, "warn") \/ verdictSeverity \in {"high", "medium"}
  THEN [action |-> "warn"]
  ELSE [action |-> "allow"]

\* ------------------------------------------------------------------ scan scheduler

MAX_SCANS == 5

INITIAL_DELAY == 1

SCAN_COOLDOWN == 12

THREAT_TRIGGERED_COOLDOWN == 5

DOM_SCAN_DEBOUNCE == 10

FALLBACK_INTERVAL == 20

MAX_THREAT_TRIGGERED_RESCANS == 2

delays == <<8, 20>>

NoTimer == 0 - 1

NoHash == 0 - 1

Due(timer) == timer # NoTimer /\ timer <= now

\* Page contents the session sees; the first and the last have the same hash.
PageSources == {0, 1, 2}

computePageSourceHash(source) == source % 2

\* hasPageSourceChanged() on the content read at the time of the call.
hasPageSourceChanged(source) == computePageSourceHash(source) # lastPageSourceHash

cooldown(isThreatTriggeredRescan) ==
  IF isThreatTriggeredRescan THEN THREAT_TRIGGERED_COOLDOWN ELSE SCAN_COOLDOWN

\* A first layer that lets every trigger through.
NoEscalationExit == FALSE

\* The layers of runProtection, each the condition under which it returns.
EscalationExit == escalatedToBlock

BannerExit(isRerun, scanCleaned) == isRerun /\ showingBanner /\ ~scanCleaned

InitialScanExit(isRerun) == protectionActive /\ ~isRerun

\* The rate limit without the scan count.
CooldownOnlyExit(isRerun, isThreatTriggeredRescan) ==
  isRerun /\ now - lastScanTime < cooldown(isThreatTriggeredRescan)

RateLimitExit(isRerun, isThreatTriggeredRescan) ==
  isRerun /\ (\/ now - lastScanTime < cooldown(isThreatTriggeredRescan)
              \/ scanCount >= MAX_SCANS)

\* A content check that also turns threat-triggered re-scans away.
UnchangedExitAnyTrigger(isRerun, isThreatTriggeredRescan, source) ==
  isRerun /\ ~hasPageSourceChanged(source)

UnchangedExit(isRerun, isThreatTriggeredRescan, source) ==
  isRerun /\ ~hasPageSourceChanged(source) /\ ~isThreatTriggeredRescan

\* Where runProtection returns, or "scan" when it goes on to evaluate.
GateResult(isRerun, isThreatTriggeredRescan, scanCleaned, source) ==
  IF EscalationExit THEN "escalatedToBlock"
  ELSE IF BannerExit(isRerun, scanCleaned) THEN "showingBanner"
  ELSE IF InitialScanExit(isRerun) THEN "protectionActive"
  ELSE IF RateLimitExit(isRerun, isThreatTriggeredRescan) THEN "rateLimit"
  ELSE IF UnchangedExit(isRerun, isThreatTriggeredRescan, source) THEN "unchanged"
  ELSE "scan"

\* runProtection(isRerun) up to its first suspension: the gate, and for an
\* accepted trigger the bookkeeping of a scan that now evaluates the page.
runProtection(isRerun, isThreatTriggeredRescan, scanCleaned, source) ==
  LET result == GateResult(isRerun, isThreatTriggeredRescan, scanCleaned, source)
  IN  /\ lastPageSourceHash' =
           IF isRerun /\ result \in {"unchanged", "scan"}
           THEN computePageSourceHash(source) ELSE lastPageSourceHash
      /\ IF result = "scan"
         THEN /\ protectionActive' = (protectionActive \/ ~isRerun)
              /\ scanCount' = IF isRerun THEN scanCount + 1 ELSE 1
              /\ lastScanTime' = now
              /\ evaluating' = evaluating + 1
         ELSE UNCHANGED <<protectionActive, scanCount, lastScanTime, evaluating>>

\* setupDOMMonitoring(): the observer and its fallback interval.
setupDOMMonitoring ==
  IF domObserver THEN UNCHANGED <<domObserver, fallbackInterval>>
  ELSE /\ domObserver' = TRUE
       /\ fallbackInterval' = now + FALLBACK_INTERVAL

\* scheduleThreatTriggeredRescan(): the pending re-scan afterwards.
scheduleThreatTriggeredRescan ==
  IF threatTriggeredRescanCount >= MAX_THREAT_TRIGGERED_RESCANS THEN NoTimer
  ELSE IF lastProcessingTime' = "slow" THEN NoTimer
  ELSE now + delays[threatTriggeredRescanCount + 1]

showBlockingOverlay ==
  /\ escalatedToBlock' = TRUE
  /\ domObserver' = FALSE
  /\ scheduledRescanTimeout' = NoTimer
  /\ UNCHANGED <<showingBanner, fallbackInterval>>

showWarningBanner ==
  /\ showingBanner' = TRUE
  /\ scheduledRescanTimeout' = scheduleThreatTriggeredRescan
  /\ setupDOMMonitoring
  /\ UNCHANGED escalatedToBlock

\* The indicators a scan can find matched and the squatting verdicts it can get.
BlockIndicator == [action |-> "block", severity |-> "critical"]

WarnIndicator == [action |-> "warn", severity |-> "medium"]

Indicators ==
  {BlockIndicator, WarnIndicator, [action |-> "warn", severity |-> "high"],
   [action |-> "block", severity |-> "high"]}

VerdictSeverities == {"none", "low", "medium", "high", "critical"}

ScanVerdicts == {"none", "critical"}

ScanFindings == {<<>>, <<WarnIndicator>>, <<WarnIndicator, BlockIndicator>>}

\* A scan that was evaluating finishes: within its budget, or at the budget
\* with the indicators done so far and the rest left to a background pass.
ScanCompletes(indicatorMatches, verdictSeverity, processingTime, timedOut) ==
  LET action == aggregate(indicatorMatches, verdictSeverity).action
  IN  /\ evaluating > 0
      /\ evaluating' = evaluating - 1
      /\ lastProcessingTime' = processingTime
      /\ firstProcessingTime' = IF firstProcessingTime = "none" THEN processingTime
                                ELSE firstProcessingTime
      /\ backgroundProcessingActive' = (backgroundProcessingActive \/ timedOut)
      /\ CASE action = "block" -> showBlockingOverlay
           [] action = "warn" -> showWarningBanner
           [] OTHER -> /\ setupDOMMonitoring
                       /\ UNCHANGED <<escalatedToBlock, showingBanner, scheduledRescanTimeout>>
      /\ UNCHANGED <<now, protectionActive, scanCount, lastScanTime, pageSource,
                     lastPageSourceHash, domScanTimeout, threatTriggeredRescanCount>>
      /\ UNCHANGED <<detectorVars, call>>

\* The background pass over the remaining indicators ends; a critical
\* threat found late asks for a threat-triggered re-scan.
BackgroundCompletes(criticalFound) ==
  /\ backgroundProcessingActive
  /\ backgroundProcessingActive' = FALSE
  /\ IF criticalFound /\ ~escalatedToBlock
     THEN runProtection(TRUE, TRUE, FALSE, pageSource)
     ELSE UNCHANGED gateVars
  /\ UNCHANGED <<now, escalatedToBlock, showingBanner, pageSource, domObserver,
                 domScanTimeout, scheduledRescanTimeout, threatTriggeredRescanCount,
                 fallbackInterval, lastProcessingTime, firstProcessingTime>>
  /\ UNCHANGED <<detectorVars, call>>

\* The page-load signal: runProtection(), INITIAL_DELAY after DOMContentLoaded.
InitialTrigger ==
  /\ now >= INITIAL_DELAY
  /\ runProtection(FALSE, FALSE, FALSE, pageSource)
  /\ UNCHANGED <<now, escalatedToBlock, showingBanner, pageSource, domObserver,
                 domScanTimeout, scheduledRescanTimeout, threatTriggeredRescanCount,
                 fallbackInterval, lastProcessingTime, firstProcessingTime, backgroundProcessingActive>>
  /\ UNCHANGED <<detectorVars, call>>

\* The page changes; an armed observer runs its mutation callback.
DomMutation(source, significant) ==
  /\ source # pageSource
  /\ pageSource' = source
  /\ IF ~domObserver \/ escalatedToBlock \/ ~significant
     THEN UNCHANGED <<domScanTimeout, gateVars>>
     ELSE IF ~showingBanner
     THEN /\ domScanTimeout' = now + DOM_SCAN_DEBOUNCE
          /\ UNCHANGED gateVars
     ELSE /\ runProtection(TRUE, FALSE, TRUE, source)
          /\ UNCHANGED domScanTimeout
  /\ UNCHANGED <<now, escalatedToBlock, showingBanner, domObserver,
                 scheduledRescanTimeout, threatTriggeredRescanCount,
                 fallbackInterval, lastProcessingTime, firstProcessingTime, backgroundProcessingActive>>
  /\ UNCHANGED <<detectorVars, call>>

\* The debounce timer of the mutation callback.
DebounceFires ==
  /\ Due(domScanTimeout)
  /\ runProtection(TRUE, FALSE, FALSE, pageSource)
  /\ domScanTimeout' = NoTimer
  /\ UNCHANGED <<now, escalatedToBlock, showingBanner, pageSource, domObserver,
                 scheduledRescanTimeout, threatTriggeredRescanCount,
                 fallbackInterval, lastProcessingTime, firstProcessingTime, backgroundProcessingActive>>
  /\ UNCHANGED <<detectorVars, call>>

\* The timer of scheduleThreatTriggeredRescan.
RescanFires ==
  /\ Due(scheduledRescanTimeout)
  /\ scheduledRescanTimeout' = NoTimer
  /\ threatTriggeredRescanCount' = threatTriggeredRescanCount + 1
  /\ runProtection(TRUE, TRUE, FALSE, pageSource)
  /\ UNCHANGED <<now, escalatedToBlock, showingBanner, pageSource, domObserver,
                 domScanTimeout, fallbackInterval, lastProcessingTime, firstProcessingTime,
                 backgroundProcessingActive>>
  /\ UNCHANGED <<detectorVars, call>>

\* The fallback interval of setupDOMMonitoring.
FallbackFires(significant) ==
  /\ Due(fallbackInterval)
  /\ fallbackInterval' = now + FALLBACK_INTERVAL
  /\ IF escalatedToBlock \/ ~significant
     THEN UNCHANGED gateVars
     ELSE runProtection(TRUE, FALSE, FALSE, pageSource)
  /\ UNCHANGED <<now, escalatedToBlock, showingBanner, pageSource, domObserver,
                 domScanTimeout, scheduledRescanTimeout, threatTriggeredRescanCount,
                 lastProcessingTime, firstProcessingTime, backgroundProcessingActive>>
  /\ UNCHANGED <<detectorVars, call>>

\* Time passes; a timer that is due runs first.
Tick ==
  /\ now < MaxTime
  /\ protectionActive \/ now < INITIAL_DELAY
  /\ ~Due(domScanTimeout) /\ ~Due(scheduledRescanTimeout) /\ ~Due(fallbackInterval)
  /\ now' = now + (IF now < INITIAL_DELAY THEN INITIAL_DELAY ELSE TickLength)
  /\ UNCHANGED <<escalatedToBlock, showingBanner, protectionActive, scanCount,
                 lastScanTime, pageSource, lastPageSourceHash, domObserver,
                 domScanTimeout, scheduledRescanTimeout, threatTriggeredRescanCount,
                 fallbackInterval, lastProcessingTime, firstProcessingTime, backgroundProcessingActive,
                 evaluating>>
  /\ UNCHANGED <<detectorVars, call>>

\* The content script as loaded into a page.
SchedulerLoaded ==
  /\ now = 0
  /\ escalatedToBlock = FALSE
  /\ showingBanner = FALSE
  /\ protectionActive = FALSE
  /\ scanCount = 0
  /\ lastScanTime = 0
  /\ pageSource = 0
  /\ lastPageSourceHash = NoHash
  /\ domObserver = FALSE
  /\ domScanTimeout = NoTimer
  /\ scheduledRescanTimeout = NoTimer
  /\ threatTriggeredRescanCount = 0
  /\ fallbackInterval = NoTimer
  /\ lastProcessingTime = "fast"
  /\ firstProcessingTime = "none"
  /\ backgroundProcessingActive = FALSE
  /\ evaluating = 0

\* ------------------------------------------------------------------ evaluation of an accepted scan

\* The main-thread budget of indicator processing, 10,000 ms.
PROCESSING_TIMEOUT == 100

\* The indicators of the rule store, in processing order.
IndicatorIds == 1..MaxRules

RuleOf(k) == IF k % 3 = 0 THEN BlockIndicator ELSE WarnIndicator

\* The time one indicator can take: 100 ms, or 6 s on a slow page.
Durations == {1, 60}

\* checkDomainTrust(url): the three pattern lists, each matching or not.
DomainTrusts == [isTrustedLogin : BOOLEAN, isMicrosoft : BOOLEAN, isExcluded : BOOLEAN]

\* A classification in which only a trusted login origin is conclusive.
InconclusiveUnlessTrustedLogin(domainTrust) == ~domainTrust.isTrustedLogin

Inconclusive(domainTrust) ==
  ~domainTrust.isTrustedLogin /\ ~domainTrust.isMicrosoft /\ ~domainTrust.isExcluded

Scanning(phase) == call.op = "runProtection" /\ call.phase = phase

\* The matches among the indicators of a list of processed ids.
RECURSIVE MatchesAmong(_, _)
MatchesAmong(ids, matching) ==
  IF ids = <<>> THEN <<>>
  ELSE IF Head(ids) \in matching
       THEN <<RuleOf(Head(ids))>> \o MatchesAmong(Tail(ids), matching)
       ELSE MatchesAmong(Tail(ids), matching)

\* The action taken on a result: block, warn, or keep watching the page.
ActOn(action) ==
  CASE action = "block" -> showBlockingOverlay
    [] action = "warn" -> showWarningBanner
    [] OTHER -> /\ setupDOMMonitoring
                /\ UNCHANGED <<escalatedToBlock, showingBanner, scheduledRescanTimeout>>

\* The state of the page when runProtection() has passed its gate for the
\* initial scan.
ScanAccepted ==
  /\ now = INITIAL_DELAY
  /\ escalatedToBlock = FALSE
  /\ showingBanner = FALSE
  /\ protectionActive = TRUE
  /\ scanCount = 1
  /\ lastScanTime = INITIAL_DELAY
  /\ pageSource = 0
  /\ lastPageSourceHash = NoHash
  /\ domObserver = FALSE
  /\ domScanTimeout = NoTimer
  /\ scheduledRescanTimeout = NoTimer
  /\ threatTriggeredRescanCount = 0
  /\ fallbackInterval = NoTimer
  /\ lastProcessingTime = "fast"
  /\ firstProcessingTime = "none"
  /\ backgroundProcessingActive = FALSE
  /\ evaluating = 1

\* Early exits 4 to 7 of runProtection: a trusted login origin, a Microsoft
\* origin, an excluded origin, or a page with nothing of Microsoft on it.
ClassifyDomain ==
  /\ Scanning("accepted")
  /\ IF ~Inconclusive(call.domainTrust)
     THEN /\ call' = [call EXCEPT !.phase = "done", !.action = "allow", !.actedAt = now]
          /\ evaluating' = evaluating - 1
          /\ UNCHANGED <<domObserver, fallbackInterval>>
     ELSE IF ~call.relevant
     THEN /\ call' = [call EXCEPT !.phase = "done", !.action = "allow", !.actedAt = now]
          /\ evaluating' = evaluating - 1
          /\ setupDOMMonitoring
     ELSE /\ call' = [call EXCEPT !.phase = "indicators"]
          /\ UNCHANGED <<evaluating, domObserver, fallbackInterval>>
  /\ UNCHANGED <<now, escalatedToBlock, showingBanner, protectionActive, scanCount,
                 lastScanTime, pageSource, lastPageSourceHash, domScanTimeout,
                 scheduledRescanTimeout, threatTriggeredRescanCount,
                 lastProcessingTime, firstProcessingTime, backgroundProcessingActive>>
  /\ UNCHANGED detectorVars

\* One indicator is processed on the main thread, within the budget.
ProcessIndicator(duration) ==
  /\ Scanning("indicators")
  /\ Len(call.processed) < MaxRules
  /\ now - call.startedAt <= PROCESSING_TIMEOUT
  /\ call' = [call EXCEPT !.processed = Append(@, Len(@) + 1)]
  /\ now' = now + duration
  /\ UNCHANGED <<escalatedToBlock, showingBanner, protectionActive, scanCount,
                 lastScanTime, pageSource, lastPageSourceHash, domObserver,
                 domScanTimeout, scheduledRescanTimeout, threatTriggeredRescanCount,
                 fallbackInterval, lastProcessingTime, firstProcessingTime, backgroundProcessingActive,
                 evaluating>>
  /\ UNCHANGED detectorVars

\* A timeout that starts a background pass whether or not one is active.
StartsBackgroundUnguarded(timedOut) == timedOut

\* The recursion guard: a background pass is started on a timeout unless one
\* is active.
StartsBackground(timedOut) == timedOut /\ ~backgroundProcessingActive

\* The result of the indicators processed so far, with the squatting verdict,
\* is acted on.
ActOnResult(processingTime, timedOut) ==
  LET indicatorMatches == MatchesAmong(call.processed, call.matching)
      action == aggregate(indicatorMatches, call.verdictSeverity).action
      startsBackground == StartsBackground(timedOut)
  IN  /\ call' = [call EXCEPT !.phase = IF startsBackground THEN "background" ELSE "done",
                              !.action = action, !.actedAt = now,
                              !.timedOut = timedOut,
                              !.pendingPasses = IF startsBackground THEN @ + 1 ELSE @,
                              !.squattingChecks = @ + 1]
      /\ evaluating' = evaluating - 1
      /\ lastProcessingTime' = processingTime
      /\ firstProcessingTime' = IF firstProcessingTime = "none" THEN processingTime
                                ELSE firstProcessingTime
      /\ backgroundProcessingActive' = (backgroundProcessingActive \/ timedOut)
      /\ ActOn(action)
      /\ UNCHANGED <<now, protectionActive, scanCount, lastScanTime, pageSource,
                     lastPageSourceHash, domScanTimeout, threatTriggeredRescanCount>>
      /\ UNCHANGED detectorVars

\* All indicators were processed within the budget.
EvaluationCompletes(processingTime) ==
  /\ Scanning("indicators")
  /\ Len(call.processed) = MaxRules
  /\ ActOnResult(processingTime, FALSE)

\* "Main thread processing timeout after 10000ms, processed k/n indicators".
MainThreadTimeout(processingTime) ==
  /\ Scanning("indicators")
  /\ Len(call.processed) < MaxRules
  /\ now - call.startedAt > PROCESSING_TIMEOUT
  /\ ActOnResult(processingTime, TRUE)

\* A background pass that starts over from the first indicator.
FirstUnprocessedInBackground(processed, background) == Len(background) + 1

\* The background pass takes up the indicators where the main thread stopped.
NextRemainingIndicator(processed, background) == Len(processed) + Len(background) + 1

\* One of the remaining indicators is processed in the background.
BackgroundIndicator ==
  /\ Scanning("background")
  /\ Len(call.processed) + Len(call.background) < MaxRules
  /\ call' = [call EXCEPT
                !.background = Append(@, NextRemainingIndicator(call.processed, @))]
  /\ UNCHANGED schedulerVars
  /\ UNCHANGED detectorVars

\* "Background processing completed": a critical threat among the remaining
\* indicators triggers a re-scan to apply the block.
BackgroundProcessingCompleted ==
  LET found == MatchesAmong(call.background, call.matching)
      criticalFound == \E k \in 1..Len(found) : found[k].severity = "critical"
  IN  /\ Scanning("background")
      /\ Len(call.processed) + Len(call.background) = MaxRules
      /\ call' = [call EXCEPT !.phase = "done", !.criticalFound = criticalFound,
                              !.pendingPasses = @ - 1]
      /\ backgroundProcessingActive' = FALSE
      /\ IF criticalFound /\ ~escalatedToBlock
         THEN runProtection(TRUE, TRUE, FALSE, pageSource)
         ELSE UNCHANGED gateVars
      /\ UNCHANGED <<now, escalatedToBlock, showingBanner, pageSource, domObserver,
                     domScanTimeout, scheduledRescanTimeout, threatTriggeredRescanCount,
                     fallbackInterval, lastProcessingTime, firstProcessingTime>>
      /\ UNCHANGED detectorVars

\* Time passes until the pending threat-triggered re-scan is due.
RescanDelayElapses ==
  /\ call.op = "runProtection"
  /\ scheduledRescanTimeout # NoTimer /\ now < scheduledRescanTimeout
  /\ now' = scheduledRescanTimeout
  /\ UNCHANGED <<escalatedToBlock, showingBanner, protectionActive, scanCount,
                 lastScanTime, pageSource, lastPageSourceHash, domObserver,
                 domScanTimeout, scheduledRescanTimeout, threatTriggeredRescanCount,
                 fallbackInterval, lastProcessingTime, firstProcessingTime, backgroundProcessingActive,
                 evaluating>>
  /\ UNCHANGED <<detectorVars, call>>

\* A re-scan that follows the scan under study finishes and finds the
\* indicator with action block.
RescanCompletes ==
  /\ Scanning("done")
  /\ ScanCompletes(<<BlockIndicator>>, "none", "fast", FALSE)

\* The record of a scan that has just passed the gate, the background pass
\* of the scan before it still pending or not.
NextScan(fromBackground, earlierPass) ==
  [call EXCEPT !.phase = "accepted", !.startedAt = now, !.processed = <<>>,
               !.background = <<>>, !.action = "none", !.actedAt = NoTimer,
               !.criticalFound = FALSE, !.timedOut = FALSE,
               !.fromBackground = fromBackground, !.earlierPass = earlierPass]

\* The re-scan that the background pass triggered, and that the gate let
\* through, begins.
RescanStarts ==
  /\ Scanning("done")
  /\ call.criticalFound /\ evaluating > 0
  /\ call' = NextScan(TRUE, call.earlierPass)
  /\ UNCHANGED schedulerVars
  /\ UNCHANGED detectorVars

\* A re-run asked for by the page (mutation callback or fallback interval)
\* passes the gate while the background pass of the last scan is running.
RerunStarts ==
  /\ Scanning("background")
  /\ domObserver
  /\ GateResult(TRUE, FALSE, showingBanner, pageSource) = "scan"
  /\ runProtection(TRUE, FALSE, showingBanner, pageSource)
  /\ call' = NextScan(FALSE, TRUE)
  /\ UNCHANGED <<now, escalatedToBlock, showingBanner, pageSource, domObserver,
                 domScanTimeout, scheduledRescanTimeout, threatTriggeredRescanCount,
                 fallbackInterval, lastProcessingTime, firstProcessingTime, backgroundProcessingActive>>
  /\ UNCHANGED detectorVars

\* "Background processing completed. Threats found: false", for the pass of
\* an earlier scan.
EarlierPassCompleted ==
  /\ call.op = "runProtection"
  /\ call.earlierPass
  /\ call' = [call EXCEPT !.earlierPass = FALSE, !.pendingPasses = @ - 1]
  /\ backgroundProcessingActive' = FALSE
  /\ UNCHANGED <<now, escalatedToBlock, showingBanner, pageSource, domObserver,
                 domScanTimeout, scheduledRescanTimeout, threatTriggeredRescanCount,
                 fallbackInterval, lastProcessingTime, firstProcessingTime>>
  /\ UNCHANGED gateVars
  /\ UNCHANGED detectorVars

\* ------------------------------------------------------------------ code-driven rules

\* Longest page source of the rule evaluations.
MaxContentLen == 4

T_mf == <<"m", "f">>

T_o == <<"o">>

T_s == <<"s">>

T_x == <<"x">>

T_m == <<"m">>

\* code_logic objects of type substring_with_exclusions with pattern parts:
\* two groups and an exclusion, and three groups without one.
ExclusionLogics ==
  {[type |-> "substring_with_exclusions", exclude_if_contains |-> <<T_x>>,
    match_pattern_parts |-> <<<<T_mf, T_o>>, <<T_s>>>>],
   [type |-> "substring_with_exclusions", exclude_if_contains |-> <<>>,
    match_pattern_parts |-> <<<<T_m>>, <<T_s>>, <<T_o>>>>]}

\* terms.some(term => source.includes(term))
SomeIncluded(source, terms) == \E k \in 1..Len(terms) : Includes(source, terms[k])

\* An evaluation that is content with one pattern part.
substringWithExclusionsAnyPart(code_logic, source) ==
  /\ ~SomeIncluded(source, code_logic.exclude_if_contains)
  /\ \E p \in 1..Len(code_logic.match_pattern_parts) :
       SomeIncluded(source, code_logic.match_pattern_parts[p])

\* substring_with_exclusions: skip the rule when an exclusion phrase is in
\* the page source, then every pattern part needs one of its terms in it.
substringWithExclusions(code_logic, source) ==
  /\ ~SomeIncluded(source, code_logic.exclude_if_contains)
  /\ \A p \in 1..Len(code_logic.match_pattern_parts) :
       SomeIncluded(source, code_logic.match_pattern_parts[p])

\* The page source without the n characters from index i on.
WithoutRange(source, i, n) == Substring(source, 0, i) \o SubstringFrom(source, i + n)

\* The rule is evaluated on the page source.
ApplySubstringWithExclusions ==
  /\ call.op = "substring_with_exclusions" /\ ~call.done
  /\ call' = [call EXCEPT !.done = TRUE,
                          !.ret = substringWithExclusions(call.code_logic, call.pageSource)]
  /\ UNCHANGED <<detectorVars, schedulerVars>>

\* One occurrence of a term of one pattern part goes from a page source on
\* which the rule matched, and the rule is evaluated again.
RemoveTerm ==
  /\ call.op = "substring_with_exclusions" /\ call.done
  /\ call.ret /\ call.part = 0
  /\ \E p \in 1..Len(call.code_logic.match_pattern_parts) :
       \E k \in 1..Len(call.code_logic.match_pattern_parts[p]) :
         LET term == call.code_logic.match_pattern_parts[p][k]
         IN  \E i \in 0..(Len(call.pageSource) - Len(term)) :
               /\ Substring(call.pageSource, i, i + Len(term)) = term
               /\ LET rest == WithoutRange(call.pageSource, i, Len(term))
                  IN  call' = [call EXCEPT !.pageSource = rest, !.part = p,
                                           !.ret = substringWithExclusions(call.code_logic, rest)]
  /\ UNCHANGED <<detectorVars, schedulerVars>>

T_v_a == <<"v", " ", "a">>

T_Va == <<"V", "a">>

T_v == <<"v">>

T_a == <<"a">>

\* A rule without a fallback regex.
NoRegex == [first |-> <<>>, maxGap |-> 0 - 1, second |-> <<>>]

\* Regular expressions of the shape of the documented ones,
\* first.{0,maxGap}second ("verify.{0,50}account"), the gap scaled down.
Regexes == {NoRegex, [first |-> T_v, maxGap |-> 2, second |-> T_a]}

\* The flags of a rule: none, "i", and "g".
FlagSets == {<<>>, <<"i">>, <<"g">>}

\* code_logic objects of type substring_or_regex.
OrRegexLogics ==
  [type : {"substring_or_regex"}, substrings : {<<T_v_a>>, <<T_Va, T_v_a>>, <<>>},
   regex : Regexes, flags : FlagSets]

\* Characters compared as the flags of the regular expression say.
Folded(s, flags) == IF SeqIncludes(flags, "i") THEN ToLowerCase(s) ELSE s

\* new RegExp(regex, flags).test(source) for first.{0,maxGap}second: the dot
\* matches any character but a line terminator.
RegExpTest(regex, flags, source) ==
  LET text == Folded(source, flags)
      first == Folded(regex.first, flags)
      second == Folded(regex.second, flags)
  IN  \E i \in 0..Len(text) : \E gap \in 0..regex.maxGap :
        /\ i + Len(first) + gap + Len(second) <= Len(text)
        /\ Substring(text, i, i + Len(first)) = first
        /\ \A k \in 1..gap : text[i + Len(first) + k] # "\n"
        /\ Substring(text, i + Len(first) + gap, i + Len(first) + gap + Len(second)) = second

\* substrings: pageSource.toLowerCase().includes(sub.toLowerCase()) for one
\* of them.
SubstringMatch(code_logic, source) ==
  \E k \in 1..Len(code_logic.substrings) :
    Includes(ToLowerCase(source), ToLowerCase(code_logic.substrings[k]))

\* The reading in which the substrings are a pre-check: the regular
\* expression runs only when one of them was found.
substringOrRegexPrecheck(code_logic, source) ==
  IF SubstringMatch(code_logic, source) /\ code_logic.regex # NoRegex
  THEN [matches |-> RegExpTest(code_logic.regex, code_logic.flags, source),
        matchDetails |-> "regex match", regexRun |-> TRUE]
  ELSE [matches |-> FALSE, matchDetails |-> "none", regexRun |-> FALSE]

\* substring_or_regex: the substrings first, the regular expression with
\* flags || "i" when none of them matched.
substringOrRegex(code_logic, source) ==
  IF SubstringMatch(code_logic, source)
  THEN [matches |-> TRUE, matchDetails |-> "substring match", regexRun |-> FALSE]
  ELSE IF code_logic.regex # NoRegex
  THEN LET flags == IF code_logic.flags = <<>> THEN <<"i">> ELSE code_logic.flags
           found == RegExpTest(code_logic.regex, flags, source)
       IN  [matches |-> found,
            matchDetails |-> IF found THEN "regex match" ELSE "none",
            regexRun |-> TRUE]
  ELSE [matches |-> FALSE, matchDetails |-> "none", regexRun |-> FALSE]

ApplySubstringOrRegex ==
  /\ call.op = "substring_or_regex" /\ ~call.done
  /\ call' = [call EXCEPT !.done = TRUE,
                          !.ret = substringOrRegex(call.code_logic, call.pageSource)]
  /\ UNCHANGED <<detectorVars, schedulerVars>>

T_cs == <<"c", "s">>

T_n == <<"n">>

\* phi_012_suspicious_resources, its strings scaled down: "cs" stands for
\* "customcss" and "n" for "aadcdn.msftauthimages.net"; the pattern is
\* customcss(?![^]*aadcdn\.msftauthimages\.net) with flags "i".
phi_012_suspicious_resources ==
  [id |-> "phi_012_suspicious_resources",
   code_logic |-> [type |-> "substring_not_allowlist", substring |-> T_cs,
                   allowlist |-> <<T_n>>],
   pattern |-> [literal |-> T_cs, notFollowedBy |-> T_n],
   flags |-> <<"i">>]

\* phi_003: "v a" stands for "verify account", the pattern and the regex of
\* its code_logic are both (verify.{0,50}account|...) with flags "i".
phi_003 ==
  [id |-> "phi_003",
   code_logic |-> [type |-> "substring_or_regex", substrings |-> <<T_v_a>>,
                   regex |-> [first |-> T_v, maxGap |-> 2, second |-> T_a],
                   flags |-> <<>>],
   pattern |-> [first |-> T_v, maxGap |-> 2, second |-> T_a],
   flags |-> <<"i">>]

\* new RegExp(pattern, flags).test(source) for literal(?![^]*notFollowedBy):
\* the literal occurs at a place after which the other string does not occur.
NegativeLookaheadTest(pattern, flags, source) ==
  LET text == Folded(source, flags)
      literal == Folded(pattern.literal, flags)
      barred == Folded(pattern.notFollowedBy, flags)
  IN  \E i \in 0..Len(text) :
        /\ i + Len(literal) <= Len(text)
        /\ Substring(text, i, i + Len(literal)) = literal
        /\ ~Includes(SubstringFrom(text, i + Len(literal)), barred)

\* substring_not_allowlist: pageSource.includes(substring), and no entry of
\* the allowlist in the lower-cased page source.
substringNotAllowlist(code_logic, source) ==
  /\ Includes(source, code_logic.substring)
  /\ ~\E k \in 1..Len(code_logic.allowlist) :
        Includes(ToLowerCase(source), ToLowerCase(code_logic.allowlist[k]))

\* The code_driven branch of the indicator loop.
evaluateCodeLogic(code_logic, source) ==
  IF code_logic.type = "substring_not_allowlist"
  THEN substringNotAllowlist(code_logic, source)
  ELSE substringOrRegex(code_logic, source).matches

\* The standard branch: the rule's pattern with its flags.
evaluatePattern(indicator, source) ==
  IF indicator.id = "phi_003"
  THEN RegExpTest(indicator.pattern, indicator.flags, source)
  ELSE NegativeLookaheadTest(indicator.pattern, indicator.flags, source)

\* A rule is evaluated on a page source both ways.
ApplyIndicator ==
  /\ call.op = "indicator" /\ ~call.done
  /\ call' = [call EXCEPT !.done = TRUE,
                          !.codeDriven = evaluateCodeLogic(call.indicator.code_logic,
                                                           call.pageSource),
                          !.byPattern = evaluatePattern(call.indicator, call.pageSource)]
  /\ UNCHANGED <<detectorVars, schedulerVars>>

\* ------------------------------------------------------------------ session storage fallback

\* Calls made on the session storage in one run.
MaxCalls == 3

\* '__session__'
sessionPrefix == <<"_", "_", "s", "e", "s", "s", "i", "o", "n", "_", "_">>

\* String.prototype.replace(pattern, '') with a string pattern: the first
\* occurrence goes.
ReplaceFirst(s, pattern) ==
  IF Includes(s, pattern) THEN WithoutRange(s, IndexOf(s, pattern), Len(pattern)) ELSE s

\* An object with no own properties.
EmptyObject == [k \in {} |-> 0]

\* Object spread of two objects: the entries of the second win.
Assign(object, entries) ==
  [k \in DOMAIN object \cup DOMAIN entries |->
     IF k \in DOMAIN entries THEN entries[k] ELSE object[k]]

\* The object without the given keys.
Without(object, keys) == [k \in DOMAIN object \ keys |-> object[k]]

\* The value of `this` in the arrow functions of storageAPI.session: that of
\* the top level of the ES module browser-polyfill.js.
ModuleThis == "undefined"

\* Whether chrome.storage.session is there to be called: the module always
\* exports its wrapper, the inline script installs its polyfill only under
\* isChrome && !isFirefox.
SessionInstalled(impl, isFirefox) == impl = "module" \/ ~isFirefox

\* Whether the fallback can read its prefix and its key set: the inline
\* script keeps them in closure constants, the module reads them from
\* `this`.
FallbackState(impl) == impl = "inline" \/ ModuleThis # "undefined"

\* A call that ends in a TypeError (thrown, or as the rejection of the
\* promise): nothing is stored or removed.
TypeErrorOutcome(method, key) ==
  [method |-> method, key |-> key, outcome |-> "TypeError", result |-> EmptyObject]

\* storage.session.set({[key]: value}) on the fallback path.
sessionSet(session, key, value) ==
  IF ~SessionInstalled(session.impl, session.isFirefox) \/ ~FallbackState(session.impl)
  THEN [session EXCEPT !.last = TypeErrorOutcome("set", key)]
  ELSE LET prefixedKey == sessionPrefix \o key
       IN  [session EXCEPT !.local = Assign(@, [k \in {prefixedKey} |-> value]),
                           !.sessionKeys = @ \cup {prefixedKey},
                           !.last = [method |-> "set", key |-> key, outcome |-> "resolved",
                                     result |-> EmptyObject]]

\* storage.session.get(key), key a string, on the fallback path.
sessionGet(session, key) ==
  IF ~SessionInstalled(session.impl, session.isFirefox) \/ ~FallbackState(session.impl)
  THEN [session EXCEPT !.last = TypeErrorOutcome("get", key)]
  ELSE LET prefixedKeys == sessionPrefix \o key
           originalKey == ReplaceFirst(prefixedKeys, sessionPrefix)
           unprefixed == IF prefixedKeys \in DOMAIN session.local
                         THEN [k \in {originalKey} |-> session.local[prefixedKeys]]
                         ELSE EmptyObject
       IN  [session EXCEPT !.last = [method |-> "get", key |-> key, outcome |-> "resolved",
                                     result |-> unprefixed]]

\* storage.session.remove(key) on the fallback path.
sessionRemove(session, key) ==
  IF ~SessionInstalled(session.impl, session.isFirefox) \/ ~FallbackState(session.impl)
  THEN [session EXCEPT !.last = TypeErrorOutcome("remove", key)]
  ELSE LET prefixedKeys == {sessionPrefix \o key}
       IN  [session EXCEPT !.local = Without(@, prefixedKeys),
                           !.sessionKeys = @ \ prefixedKeys,
                           !.last = [method |-> "remove", key |-> key, outcome |-> "resolved",
                                     result |-> EmptyObject]]

\* Keys and values of the callers: a plain key and one that holds the
\* prefix itself.
SessionKeyNames == {<<"t">>, sessionPrefix}

SessionValues == {"value", "other"}

SessionSet(key, value) ==
  /\ call.op = "session" /\ call.calls < MaxCalls
  /\ call' = [sessionSet(call, key, value) EXCEPT
                !.calls = @ + 1,
                !.asked = Assign(@, [k \in {key} |-> value])]
  /\ UNCHANGED <<detectorVars, schedulerVars>>

SessionGet(key) ==
  /\ call.op = "session" /\ call.calls < MaxCalls
  /\ call' = [sessionGet(call, key) EXCEPT !.calls = @ + 1]
  /\ UNCHANGED <<detectorVars, schedulerVars>>

SessionRemove(key) ==
  /\ call.op = "session" /\ call.calls < MaxCalls
  /\ call' = [sessionRemove(call, key) EXCEPT
                !.calls = @ + 1,
                !.asked = Without(@, {key})]
  /\ UNCHANGED <<detectorVars, schedulerVars>>

\* ------------------------------------------------------------------ properties

\* C1: once escalatedToBlock is set it stays set in every later state, and
\* from a blocked state no step, whatever trigger it is (mutation callback,
\* debounce timer, threat-rescan timer, fallback interval, background-pass
\* completion, another page-load signal), admits a scan: the scan count, the
\* time of the last scan and the content hash the gate records stay as they
\* are and the number of evaluating scans does not grow.
BlockedIsTerminal ==
  [][escalatedToBlock =>
       /\ escalatedToBlock'
       /\ scanCount' = scanCount
       /\ lastScanTime' = lastScanTime
       /\ lastPageSourceHash' = lastPageSourceHash
       /\ evaluating' <= evaluating]_vars

\* The page is blocked while a debounce timer and a background pass are
\* still pending, and every later layer of the gate would let a re-run pass.
BlockedWithTriggersPending ==
  /\ escalatedToBlock
  /\ domScanTimeout # NoTimer
  /\ backgroundProcessingActive
  /\ ~showingBanner
  /\ ~RateLimitExit(TRUE, FALSE)
  /\ ~UnchangedExit(TRUE, FALSE, pageSource)

\* C2: scans are strictly serialized: at no time are two scans in their
\* evaluation phase.
ScansSerialized == evaluating <= 1

\* C3: in every reachable state scanCount is at most MAX_SCANS.
ScanCountBounded == scanCount <= MAX_SCANS

\* The cap is reached and the page is neither blocked nor warned, with a
\* debounce timer pending.
ScanCapReached ==
  /\ scanCount = MAX_SCANS
  /\ ~escalatedToBlock
  /\ ~showingBanner
  /\ domScanTimeout # NoTimer

\* The Levenshtein distance by its recursive definition.
RECURSIVE EditDistance(_, _)
EditDistance(a, b) ==
  IF a = <<>> THEN Len(b)
  ELSE IF b = <<>> THEN Len(a)
  ELSE IF Head(a) = Head(b) THEN EditDistance(Tail(a), Tail(b))
  ELSE 1 + Min2(EditDistance(Tail(a), Tail(b)),
                Min2(EditDistance(Tail(a), b), EditDistance(a, Tail(b))))

\* C4: detectLevenshtein returns a result iff 0 < d <= t for the Levenshtein
\* distance d of the two labels and the threshold t >= 1; its confidence is
\* 1 - d/t, which every larger distance within the threshold would make
\* strictly smaller; 'micrsoft' against 'microsoft' at t = 2 gives 0.5.
LevenshteinFiresWithinThreshold ==
  (call.op = "detectLevenshtein" /\ call.done) =>
    LET d == EditDistance(call.testDomain, call.protectedDomain)
        t == deviationThreshold
    IN  /\ (call.ret # Null) <=> (0 < d /\ d <= t)
        /\ (call.ret # Null) =>
             /\ call.ret.distance = d
             /\ call.ret.confidence = Rat(t - d, t)
             /\ \A e \in 1..t : d < e => RatLt(Rat(t - e, t), call.ret.confidence)
        /\ (t = 2 /\ call.testDomain = L_micrsoft /\ call.protectedDomain = L_microsoft) =>
             (call.ret # Null /\ call.ret.confidence = Rat(1, 2))

MicrsoftDetected ==
  /\ call.op = "detectLevenshtein" /\ call.done
  /\ deviationThreshold = 2
  /\ call.testDomain = L_micrsoft /\ call.protectedDomain = L_microsoft
  /\ call.ret # Null
  /\ call.ret.distance = 1

PlainChars == LowerLetters \cup Digits \cup {"-"}

IsPlain(s) == \A i \in 1..Len(s) : s[i] \in PlainChars

\* C5: normalizeHomoglyphs is idempotent, and it leaves every string of
\* ASCII letters a-z, digits and '-' as it is.
NormalizeIdempotent ==
  (call.op = "normalizeHomoglyphs" /\ call.done) =>
    /\ call.again = call.ret
    /\ IsPlain(call.domain) => call.ret = call.domain

\* A plain string is normalized to itself.
PlainStringKept ==
  /\ call.op = "normalizeHomoglyphs" /\ call.done
  /\ call.domain = L_microsoft
  /\ call.ret = call.domain

ConfidencesOf(detections) == {detections[k].confidence : k \in 1..Len(detections)}

Highest(detections) ==
  CHOOSE c \in ConfidencesOf(detections) :
    \A d \in ConfidencesOf(detections) : RatLeq(d, c)

RECURSIVE Total(_)
Total(detections) ==
  IF detections = <<>> THEN Rat(0, 1)
  ELSE RatAdd(Head(detections).confidence, Total(Tail(detections)))

Mean(detections) == RatDivInt(Total(detections), Len(detections))

\* C6: the severity is critical iff the highest confidence is >= 0.9, high
\* iff it is in [0.8, 0.9), medium iff in [0.6, 0.8), low otherwise; the
\* confidence is min(0.99, mean + 0.1) for more than one technique and
\* min(0.99, mean) for exactly one.
SeverityAndConfidenceBands ==
  (call.op = "calculate" /\ call.done) =>
    LET m == Highest(call.detections)
        n == Len(call.detections)
    IN  /\ call.severity = "critical" <=> RatLeq(Rat(9, 10), m)
        /\ call.severity = "high" <=> (RatLeq(Rat(8, 10), m) /\ RatLt(m, Rat(9, 10)))
        /\ call.severity = "medium" <=> (RatLeq(Rat(6, 10), m) /\ RatLt(m, Rat(8, 10)))
        /\ call.severity = "low" <=> RatLt(m, Rat(6, 10))
        /\ n > 1 => call.confidence =
                      RatMin(Rat(99, 100), RatAdd(Mean(call.detections), Rat(1, 10)))
        /\ n = 1 => call.confidence = RatMin(Rat(99, 100), Mean(call.detections))

\* Two techniques, the higher exactly 0.9 and the lower 0.8: critical, and
\* the mean plus the bonus (0.95) under the cap.
TwoTechniquesAtBoundary ==
  /\ call.op = "calculate" /\ call.done
  /\ Len(call.detections) = 2
  /\ call.detections[1].confidence = Rat(4, 5)
  /\ call.detections[2].confidence = Rat(9, 10)
  /\ call.severity = "critical"
  /\ call.confidence = Rat(19, 20)

Fires(testBase, protectedBase) ==
  /\ testBase # protectedBase
  /\ \/ algorithms.levenshtein /\ detectLevenshtein(testBase, protectedBase) # Null
     \/ algorithms.homoglyph /\ detectHomoglyph(testBase, protectedBase) # Null
     \/ algorithms.typosquat /\ detectTyposquat(testBase, protectedBase) # Null
     \/ algorithms.combosquat /\ detectCombosquat(testBase, protectedBase) # Null

\* The result of the named technique for the two base labels.
TechniqueResult(technique, testBase, protectedBase) ==
  CASE technique = "levenshtein" -> detectLevenshtein(testBase, protectedBase)
    [] technique = "homoglyph" -> detectHomoglyph(testBase, protectedBase)
    [] technique = "typosquat" -> detectTyposquat(testBase, protectedBase)
    [] technique = "combosquat" -> detectCombosquat(testBase, protectedBase)

FiringCount(testBase, protectedBase) ==
  Cardinality({a \in DOMAIN algorithms :
                 algorithms[a] /\ TechniqueResult(a, testBase, protectedBase) # Null})

SeverityRank(severity) ==
  CASE severity = "low" -> 1 [] severity = "medium" -> 2
    [] severity = "high" -> 3 [] severity = "critical" -> 4

\* C8: checkDomain returns the verdict for the first protected domain, in
\* list order, against which an enabled technique fires: it names that
\* domain, its techniques are exactly the enabled techniques firing against
\* that domain, and the walk stops there; with no such domain it returns null.
FirstMatchReturned ==
  (call.op = "checkDomain" /\ enabled) =>
    LET testBase == extractBaseDomain(call.testDomain)
        Base(k) == extractBaseDomain(protectedDomains[k])
        firing == {k \in 1..Len(protectedDomains) : Fires(testBase, Base(k))}
    IN  IF firing = {} THEN call.ret = Null
        ELSE LET first == MinOf(firing)
                 found == call.ret.techniques
             IN  /\ call.ret # Null
                 /\ call.ret.protectedDomain = protectedDomains[first]
                 /\ call.visited = first
                 /\ Len(found) = FiringCount(testBase, Base(first))
                 /\ \A i \in 1..Len(found) :
                      /\ algorithms[found[i].technique]
                      /\ found[i] = TechniqueResult(found[i].technique, testBase, Base(first))

\* A verdict is returned for one protected domain while a later one in the
\* list would give a higher severity.
LaterDomainScoresHigher ==
  /\ call.op = "checkDomain"
  /\ call.ret # Null
  /\ \E j \in (call.visited + 1)..Len(protectedDomains) :
       LET testBase == extractBaseDomain(call.testDomain)
           later == RunDetections(testBase, extractBaseDomain(protectedDomains[j]))
       IN  /\ Fires(testBase, extractBaseDomain(protectedDomains[j]))
           /\ SeverityRank(calculateSeverity(later)) > SeverityRank(call.ret.severity)

L_contoso == <<"c", "o", "n", "t", "o", "s", "o">>

SecondLevelLabels ==
  {L_co, L_com, L_net, L_org, <<"g", "o", "v">>, <<"e", "d", "u">>}

\* The base label of a host name given by its labels.
BaseLabel(labels) ==
  LET n == Len(labels)
  IN  IF n >= 3 /\ labels[n - 1] \in SecondLevelLabels THEN labels[n - 2]
      ELSE IF n >= 2 THEN labels[n - 1]
      ELSE labels[1]

\* The protected domains of the inputs by their components.
ProtectedUrls ==
  {BrandUrls[k] : k \in 1..Len(BrandUrls)}
  \cup {DecoratedUrls[k] : k \in 1..Len(DecoratedUrls)}
  \cup {Host(<<L_yourcompany, L_com>>), Host(<<L_example, L_co, L_uk>>),
        Host(<<L_contoso, L_com>>)}

UrlOf(domain) == CHOOSE url \in ProtectedUrls : Render(url) = domain

YourCompanyDomain == Render(Host(<<L_yourcompany, L_com>>))

\* C10: with yourcompany.com protected through the URL allowlist, the
\* detector enabled and configured by default, checkDomain returns a verdict
\* naming yourcompany.com for yourcompany.net and for your-company.com.
AllowlistDomainGuarded ==
  (/\ call.op = "checkDomain"
   /\ enabled /\ algorithms = DefaultAlgorithms /\ deviationThreshold = 2
   /\ SeqIncludes(protectedDomains, YourCompanyDomain)
   /\ call.url.labels \in {<<L_yourcompany, L_net>>, <<L_your_company, L_com>>}) =>
    (call.ret # Null /\ call.ret.protectedDomain = YourCompanyDomain)

\* The allowlist entry has put yourcompany.com into the protected set and
\* your-company.com is reported against it.
HyphenatedLookalikeReported ==
  /\ call.op = "checkDomain"
  /\ SeqIncludes(protectedDomains, YourCompanyDomain)
  /\ call.url.labels = <<L_your_company, L_com>>
  /\ call.ret # Null
  /\ call.ret.protectedDomain = YourCompanyDomain

\* The variants of a label p at position i (counted from 0), by pattern kind.
QwertyNeighbours(c) ==
  UNION {{keyboardAdjacent[r][2][k] : k \in 1..Len(keyboardAdjacent[r][2])} :
           r \in {r \in 1..Len(keyboardAdjacent) : keyboardAdjacent[r][1] = c}}

TypoKinds ==
  <<"character_swap", "character_omission", "character_duplication",
    "adjacent_key_substitution">>

TypoConfidence == <<Rat(9, 10), Rat(85, 100), Rat(85, 100), Rat(8, 10)>>

VariantsAt(j, p, i) ==
  LET n == Len(p)
  IN  CASE j = 1 ->
             IF i + 2 > n THEN {}
             ELSE {[k \in 1..n |-> IF k = i + 1 THEN p[i + 2]
                                   ELSE IF k = i + 2 THEN p[i + 1] ELSE p[k]]}
        [] j = 2 -> {[k \in 1..(n - 1) |-> IF k <= i THEN p[k] ELSE p[k + 1]]}
        [] j = 3 -> {[k \in 1..(n + 1) |-> IF k <= i + 1 THEN p[k] ELSE p[k - 1]]}
        [] OTHER -> {[p EXCEPT ![i + 1] = key] : key \in QwertyNeighbours(p[i + 1])}

MatchPositions(j, p, t) == {i \in 0..(Len(p) - 1) : t \in VariantsAt(j, p, i)}

\* C11: detectTyposquat returns null when no transposition, omission,
\* duplication or QWERTY-adjacent substitution of the protected label, at any
\* position, equals the test label; otherwise it returns a typosquat result
\* whose pattern is the first kind (in that order) with a matching variant,
\* whose position is the lowest matching position of that kind, and whose
\* confidence is 0.9 / 0.85 / 0.85 / 0.8 by kind.
TyposquatFirstExactVariant ==
  (call.op = "detectTyposquat" /\ call.done) =>
    LET p == call.protectedDomain
        t == call.testDomain
        kinds == {j \in 1..4 : MatchPositions(j, p, t) # {}}
    IN  IF kinds = {} THEN call.ret = Null
        ELSE LET j == MinOf(kinds)
             IN  /\ call.ret # Null
                 /\ call.ret.technique = "typosquat"
                 /\ call.ret.pattern = TypoKinds[j]
                 /\ call.ret.position = MinOf(MatchPositions(j, p, t))
                 /\ call.ret.confidence = TypoConfidence[j]

\* An omission that matches at two positions is reported at the lower one.
TypoOmissionLowestPosition ==
  /\ call.op = "detectTyposquat" /\ call.done
  /\ call.ret # Null
  /\ call.ret.pattern = "character_omission"
  /\ call.ret.position = 0
  /\ 1 \in MatchPositions(2, call.protectedDomain, call.testDomain)

\* The positions (from 0) at which label p occurs in label t.
Occurrences(t, p) ==
  {k \in 0..(Len(t) - Len(p)) : \A j \in 1..Len(p) : t[k + j] = p[j]}

ContainsWord(s, words) ==
  \E w \in 1..Len(words) : Occurrences(s, words[w]) # {}

\* C12: detectCombosquat fires iff the test label contains the protected
\* label and is not equal to it; the result is common_combo with confidence
\* 0.9 when the text before or after the first occurrence contains a word of
\* the suspicious vocabulary and has a lower confidence otherwise;
\* 'login-microsoft' against 'microsoft' gives common_combo, prefix 'login-',
\* confidence 0.9.
CombosquatFiresOnProperContainment ==
  (call.op = "detectCombosquat" /\ call.done) =>
    LET p == call.protectedDomain
        t == call.testDomain
        occ == Occurrences(t, p)
    IN  /\ (call.ret # Null) <=> (occ # {} /\ t # p)
        /\ (call.ret # Null /\ occ # {}) =>
             LET at == MinOf(occ)
                 before == SubSeq(t, 1, at)
                 after == SubSeq(t, at + Len(p) + 1, Len(t))
             IN  IF ContainsWord(before, commonCombos) \/ ContainsWord(after, commonCombos)
                 THEN /\ call.ret.pattern = "common_combo"
                      /\ call.ret.confidence = Rat(9, 10)
                 ELSE RatLt(call.ret.confidence, Rat(9, 10))
        /\ (t = L_login_microsoft /\ p = L_microsoft) =>
             /\ call.ret # Null
             /\ call.ret.pattern = "common_combo"
             /\ call.ret.prefix = <<"l", "o", "g", "i", "n", "-">>
             /\ call.ret.confidence = Rat(9, 10)

\* 'login-microsoft' against 'microsoft' is reported as common_combo.
LoginMicrosoftCommonCombo ==
  /\ call.op = "detectCombosquat" /\ call.done
  /\ call.testDomain = L_login_microsoft /\ call.protectedDomain = L_microsoft
  /\ call.ret # Null
  /\ call.ret.pattern = "common_combo"
  /\ call.ret.prefix = <<"l", "o", "g", "i", "n", "-">>

\* The confidence detectHomoglyph is to report for a normalized label at
\* edit distance d from the protected label.
HomoglyphConfidence(d) == IF d = 0 THEN Rat(95, 100) ELSE RatSub(Rat(85, 100), Rat(d, 10))

PassesEarlierLayers(isThreatTriggeredRescan, scanCleaned) ==
  /\ ~escalatedToBlock
  /\ showingBanner => scanCleaned
  /\ now - lastScanTime >=
       (IF isThreatTriggeredRescan THEN THREAT_TRIGGERED_COOLDOWN ELSE SCAN_COOLDOWN)
  /\ scanCount < MAX_SCANS

NoScanStarted ==
  /\ evaluating' = evaluating
  /\ scanCount' = scanCount
  /\ lastScanTime' = lastScanTime
  /\ escalatedToBlock' = escalatedToBlock
  /\ showingBanner' = showingBanner

TrustedOriginNotEvaluated ==
  (call.op = "runProtection") =>
    /\ (call.domainTrust.isTrustedLogin \/ call.domainTrust.isExcluded) =>
         /\ call.processed = <<>> /\ call.background = <<>>
         /\ call.squattingChecks = 0
         /\ call.phase # "indicators" /\ call.phase # "background"
         /\ call.phase = "done" =>
              (call.action = "allow" /\ ~escalatedToBlock /\ ~showingBanner)
    /\ (call.processed # <<>> \/ call.background # <<>> \/ call.squattingChecks > 0) =>
         Inconclusive(call.domainTrust)

\* The scan of an excluded origin has ended with the page allowed although
\* an indicator with action block matches the page and the squatting verdict
\* would be critical.
ExcludedOriginAllowed ==
  /\ Scanning("done")
  /\ call.domainTrust.isExcluded /\ ~call.domainTrust.isTrustedLogin
  /\ ~call.domainTrust.isMicrosoft
  /\ call.relevant
  /\ 3 \in call.matching
  /\ call.verdictSeverity = "critical"
  /\ call.action = "allow"
  /\ evaluating = 0

\* The indicators covered by the two phases of a scan, in processing order.
Covered == call.processed \o call.background

EachAtMostOnce(ids) == \A i, j \in 1..Len(ids) : ids[i] = ids[j] => i = j

\* What holds of a scan whose main-thread processing timed out, apart from
\* the time at which its result is acted on.
TimeoutResultAndCoverage ==
  /\ call.processed # <<>>
  /\ call.action =
       aggregate(MatchesAmong(call.processed, call.matching), call.verdictSeverity).action
  /\ EachAtMostOnce(Covered)
  /\ \A k \in 1..Len(call.processed) : call.processed[k] \in IndicatorIds
  /\ call.phase = "done" =>
       /\ {Covered[k] : k \in 1..Len(Covered)} = IndicatorIds
       /\ \A k \in 1..Len(call.processed) :
            \E j \in 1..Len(Covered) : Covered[j] = call.processed[k]

LateCriticalThreatBlocks ==
  (call.op = "runProtection" /\ call.criticalFound) ~> escalatedToBlock

\* The background pass of a scan that only warned has found a critical
\* threat.
LateCriticalThreatUnderBanner ==
  /\ Scanning("done")
  /\ call.criticalFound
  /\ call.action = "warn"
  /\ showingBanner
  /\ ~escalatedToBlock

\* The part of C18 about passes that are pending together: at most one
\* background pass is pending, the flag backgroundProcessingActive is set
\* exactly while one is, a timeout that comes while a pass is active starts
\* nothing and changes nothing about the pending pass, and the end of a pass
\* starts no pass in the same step.
OnePassPending ==
  /\ []((call.op = "runProtection") =>
          /\ call.pendingPasses <= 1
          /\ backgroundProcessingActive <=> call.pendingPasses = 1)
  /\ [][/\ (((\E processingTime \in {"fast", "slow"} : MainThreadTimeout(processingTime))
                /\ backgroundProcessingActive)
               => (/\ call'.pendingPasses = call.pendingPasses
                   /\ backgroundProcessingActive'
                   /\ call'.phase = "done" /\ call'.background = <<>>
                   /\ call'.earlierPass = call.earlierPass))
         /\ ((BackgroundProcessingCompleted \/ EarlierPassCompleted)
               => (call'.pendingPasses = call.pendingPasses - 1))]_vars

FollowUpsBoundedProgressive ==
  /\ [](/\ threatTriggeredRescanCount <= MAX_THREAT_TRIGGERED_RESCANS
        /\ (scheduledRescanTimeout # NoTimer) =>
              (showingBanner /\ threatTriggeredRescanCount < MAX_THREAT_TRIGGERED_RESCANS))
  /\ [][(scheduledRescanTimeout' # NoTimer /\ scheduledRescanTimeout' # scheduledRescanTimeout)
          => (scheduledRescanTimeout' - now' =
                IF threatTriggeredRescanCount' = 0 THEN 8 ELSE 20)]_vars

\* C19: after a WARNED outcome at most 2 threat-triggered follow-up scans
\* are ever scheduled, the first 800 ms and the second 2000 ms ahead, and no
\* follow-up is pending on a page whose first scan was slow.
FollowUpsSkippedWhenFirstScanSlow ==
  /\ FollowUpsBoundedProgressive
  /\ []((firstProcessingTime = "slow") => (scheduledRescanTimeout = NoTimer))

\* The first scan of the page was slow, a later scan was fast and showed the
\* warning banner, and a follow-up scan is pending.
FollowUpAfterSlowFirstScan ==
  /\ firstProcessingTime = "slow"
  /\ lastProcessingTime = "fast"
  /\ showingBanner
  /\ scheduledRescanTimeout = now + 8


\* C20: at most one debounce timer and one threat-rescan timer are pending:
\* a timer that has just been set is the only one of its kind and runs its
\* full delay from now, and while the page is BLOCKED no debounce timer and
\* no rescan timer is pending.
TimersClearedOnBlock ==
  /\ [][/\ (domScanTimeout' # NoTimer /\ domScanTimeout' # domScanTimeout)
             => (domScanTimeout' = now' + DOM_SCAN_DEBOUNCE)
        /\ (scheduledRescanTimeout' # NoTimer /\ scheduledRescanTimeout' # scheduledRescanTimeout)
             => (scheduledRescanTimeout' = now' + delays[threatTriggeredRescanCount' + 1])]_vars
  /\ [](escalatedToBlock => (domScanTimeout = NoTimer /\ scheduledRescanTimeout = NoTimer))

\* The blocking overlay went up while a debounce timer was pending: the
\* rescan timer is cleared and the observer disconnected, the debounce timer
\* is still pending.
DebouncePendingAfterBlock ==
  /\ escalatedToBlock
  /\ ~domObserver
  /\ scheduledRescanTimeout = NoTimer
  /\ domScanTimeout > now


\* C21: once the page is BLOCKED the mutation observer is disconnected and
\* is not armed again, whatever calls setupDOMMonitoring afterwards.
ObserverDisarmedWhenBlocked == escalatedToBlock => ~domObserver

\* setupDOMMonitoring ran after showBlockingOverlay: the page is blocked and
\* the observer is armed, with its fallback interval running.
ObserverArmedAfterBlock ==
  /\ escalatedToBlock
  /\ domObserver
  /\ fallbackInterval # NoTimer
  /\ evaluating = 0

\* ------------------------------------------------------------------ claims C21..C30

\* Some term of the list occurs in the text.
OccursAny(text, terms) == \E k \in 1..Len(terms) : Occurrences(text, terms[k]) # {}

\* The part of C22 about when the rule matches: a substring_with_exclusions
\* rule with groups matches iff no exclusion term occurs in the content and
\* at least one term of every group occurs in it, before and after a removal.
MatchesIffEveryGroupNoExclusion ==
  (call.op = "substring_with_exclusions" /\ call.done) =>
    (call.ret <=>
       /\ ~OccursAny(call.pageSource, call.code_logic.exclude_if_contains)
       /\ \A p \in 1..Len(call.code_logic.match_pattern_parts) :
            OccursAny(call.pageSource, call.code_logic.match_pattern_parts[p]))

EffectiveFlags(code_logic) == IF code_logic.flags = <<>> THEN <<"i">> ELSE code_logic.flags

\* One of the substrings occurs in the content, letter case aside.
OccursIgnoringCase(code_logic, content) ==
  \E k \in 1..Len(code_logic.substrings) :
    Occurrences(ToLowerCase(content), ToLowerCase(code_logic.substrings[k])) # {}

CodeLogicAgreesWithPattern ==
  (call.op = "indicator" /\ call.done) => (call.codeDriven = call.byPattern)

\* phi_012 on a page source with the substring in another letter case, or
\* with the allowlisted host before it: the pattern matches, the code_logic
\* does not.
AllowlistRuleMissesPatternMatch ==
  /\ call.op = "indicator" /\ call.done
  /\ call.indicator.id = "phi_012_suspicious_resources"
  /\ call.byPattern
  /\ ~call.codeDriven


\* C25: without native session storage, set followed by get resolves with
\* the value stored for the key, the data is kept in local storage under
\* '__session__' + key, and after remove a get returns no entry for the key:
\* no call fails, local storage holds exactly what was set and not removed,
\* under the prefixed keys, and a get returns what is held for its key.
SessionRoundTrip ==
  (call.op = "session") =>
    /\ call.last.outcome # "TypeError"
    /\ call.local = [p \in {sessionPrefix \o k : k \in DOMAIN call.asked} |->
                       call.asked[SubstringFrom(p, Len(sessionPrefix))]]
    /\ (call.last.method = "get") =>
         (call.last.result =
            [k \in {call.last.key} \cap DOMAIN call.asked |-> call.asked[k]])

\* The module's wrapper was asked to set, get and remove without native
\* session storage: the calls ended in a TypeError and local storage is empty.
SessionCallsFail ==
  /\ call.op = "session"
  /\ call.impl = "module"
  /\ call.calls = MaxCalls
  /\ call.asked # EmptyObject
  /\ call.last.method = "get"
  /\ call.last.outcome = "TypeError"
  /\ call.local = EmptyObject


\* A confidence between 0 and the given upper end.
InUnitRange(confidence, top) == RatLeq(Rat(0, 1), confidence) /\ RatLeq(confidence, top)

\* C26: for every deviation threshold of at least 1 and every pair of
\* labels, the confidence of each technique result of a verdict lies in
\* 0..1 and the confidence of the verdict in 0..0.99.
ConfidencesInUnitRange ==
  (call.op = "checkDomain" /\ call.ret # Null /\ deviationThreshold >= 1) =>
    /\ \A k \in 1..Len(call.ret.techniques) :
         InUnitRange(call.ret.techniques[k].confidence, Rat(1, 1))
    /\ InUnitRange(call.ret.confidence, Rat(99, 100))

\* With a threshold of 9 or more and the homoglyph technique alone, a label
\* whose normalized form is 9 edits from the protected one gets a homoglyph
\* confidence, and a verdict confidence, below zero.
NegativeHomoglyphConfidence ==
  /\ call.op = "checkDomain" /\ call.ret # Null
  /\ deviationThreshold >= WideThreshold
  /\ Len(call.ret.techniques) = 1
  /\ call.ret.techniques[1].technique = "homoglyph"
  /\ call.ret.techniques[1].distance = 9
  /\ RatLt(call.ret.confidence, Rat(0, 1))

\* C27: when initialize is given a config that cannot be read (a null or
\* missing one), the failure reaches the caller as a hard failure - the
\* returned promise is rejected - and the detector is left with the
\* constructor's defaults, an empty protected list included, so that every
\* later checkDomain returns null.
InitializeFailureSurfaced ==
  (call.op = "initialize" /\ call.failed)
    => (call.settled = "rejected" /\ DetectorConstructed)

\* A failed initialize on a new detector has returned, fulfilled, with the
\* fields at their defaults.
InitializeFailureSwallowed ==
  /\ call.op = "initialize"
  /\ call.failed
  /\ call.settled = "fulfilled"
  /\ DetectorConstructed

\* C28: a checkDomain of a domain that is itself an entry of the protected
\* list returns null, whatever the list.
InList(domain, list) == \E k \in 1..Len(list) : list[k] = domain

ProtectedDomainNeverSquatting ==
  (call.op = "checkDomain" /\ enabled /\ InList(call.testDomain, protectedDomains))
    => call.ret = Null

\* microsoftonline.com, protected itself, is reported as a combosquat of
\* the entry before it.
ProtectedDomainReported ==
  /\ call.op = "checkDomain"
  /\ InList(call.testDomain, protectedDomains)
  /\ call.ret # Null
  /\ call.ret.protectedDomain # call.testDomain
  /\ \E k \in 1..Len(call.ret.techniques) :
       call.ret.techniques[k].technique = "combosquat"

\* Some technique of the verdict has this name.
HasTechnique(verdict, name) ==
  \E k \in 1..Len(verdict.techniques) : verdict.techniques[k].technique = name

\* C29: when the base labels of the tested and the protected domain differ
\* and detectTyposquat fires on them, their Levenshtein distance is 2 for a
\* transposition and 1 for an omission, a duplication or an adjacent-key
\* substitution; so with a threshold of 2 or more detectLevenshtein fires
\* on them too, and with both techniques enabled the verdict of checkDomain
\* carries the typosquat and the Levenshtein result, at least two
\* techniques, and a confidence that includes the 0.1 bonus (capped at 0.99).
TyposquatWithinTwoEdits ==
  (call.op = "checkDomain") =>
    LET testBase == extractBaseDomain(call.testDomain)
        protectedBase == extractBaseDomain(protectedDomains[1])
        typo == detectTyposquat(testBase, protectedBase)
        distance == levenshteinDistance(testBase, protectedBase)
    IN  /\ (testBase # protectedBase /\ typo # Null) =>
              /\ distance = (IF typo.pattern = "character_swap" THEN 2 ELSE 1)
              /\ (deviationThreshold >= 2) =>
                    /\ detectLevenshtein(testBase, protectedBase) # Null
                    /\ (algorithms.levenshtein /\ algorithms.typosquat) =>
                          (call.ret # Null /\ HasTechnique(call.ret, "typosquat"))
        /\ (/\ call.ret # Null
            /\ HasTechnique(call.ret, "typosquat")
            /\ deviationThreshold >= 2
            /\ algorithms.levenshtein) =>
              /\ testBase # protectedBase /\ typo # Null
              /\ HasTechnique(call.ret, "levenshtein")
              /\ Len(call.ret.techniques) >= 2
              /\ call.ret.confidence =
                   RatMin(Rat(99, 100),
                          RatAdd(RatDivInt(SumConfidence(call.ret.techniques, 1),
                                           Len(call.ret.techniques)),
                                 Rat(1, 10)))

\* A transposition, two edits away, at threshold 2: the verdict carries
\* both techniques.
TransposedLabelTwoTechniques ==
  /\ call.op = "checkDomain"
  /\ call.ret # Null
  /\ deviationThreshold = 2
  /\ \E k \in 1..Len(call.ret.techniques) :
       /\ call.ret.techniques[k].technique = "typosquat"
       /\ call.ret.techniques[k].pattern = "character_swap"
  /\ \E k \in 1..Len(call.ret.techniques) :
       /\ call.ret.techniques[k].technique = "levenshtein"
       /\ call.ret.techniques[k].distance = 2

\* C30: every combosquat technique in a verdict of checkDomain has the
\* pattern common_combo or generic_combo; on base labels that differ
\* detectCombosquat never returns separator_combo, also where the tested
\* label starts or ends with the protected one and a separator.
NoSeparatorComboReported ==
  (call.op = "checkDomain") =>
    LET testBase == extractBaseDomain(call.testDomain)
        protectedBase == extractBaseDomain(protectedDomains[1])
        combo == detectCombosquat(testBase, protectedBase)
    IN  /\ (testBase # protectedBase /\ combo # Null) =>
              combo.pattern \in {"common_combo", "generic_combo"}
        /\ (call.ret # Null) =>
              \A k \in 1..Len(call.ret.techniques) :
                 (call.ret.techniques[k].technique = "combosquat") =>
                    call.ret.techniques[k].pattern \in {"common_combo", "generic_combo"}

\* 'm-y' against 'm': the tested label starts with the protected one and
\* the separator '-', and the verdict reports generic_combo.
SeparatorPrefixIsGenericCombo ==
  /\ call.op = "checkDomain"
  /\ call.ret # Null
  /\ StartsWith(extractBaseDomain(call.testDomain),
                extractBaseDomain(protectedDomains[1]) \o <<"-">>)
  /\ extractBaseDomain(protectedDomains[1]) # <<>>
  /\ \E k \in 1..Len(call.ret.techniques) :
       /\ call.ret.techniques[k].technique = "combosquat"
       /\ call.ret.techniques[k].pattern = "generic_combo"
       /\ call.ret.techniques[k].suffix[1] = "-"

\* ------------------------------------------------------------------ pure calls

StringsUpTo(alphabet, n) == UNION {[1..k -> alphabet] : k \in 0..n}

LevAlphabet == {"a", "s"}

LevLabels == StringsUpTo(LevAlphabet, MaxLabelLen) \cup {L_micrsoft, L_microsoft}

\* "l" and "1", two look-alikes of "l" and of "o", and unlisted code points.
NormAlphabet == {"a", "l", "1", "o", "-", "U+013A", "U+043E"}

NormStrings == StringsUpTo(NormAlphabet, MaxLabelLen) \cup {L_microsoft, L_micr0soft_cyr}

\* Confidences of technique results: those the four techniques give at small
\* thresholds, and the boundaries of the severity bands.
Confidences ==
  {Rat(0, 1), Rat(1, 2), Rat(59, 100), Rat(3, 5), Rat(13, 20), Rat(7, 10), Rat(3, 4),
   Rat(4, 5), Rat(17, 20), Rat(89, 100), Rat(9, 10), Rat(19, 20)}

TechniqueResults == [technique : {"levenshtein"}, confidence : Confidences]

DetectionLists == UNION {[1..k -> TechniqueResults] : k \in 1..MaxDetections}

IndicatorMatchLists == StringsUpTo(Indicators, MaxIndicators)

ApplyDetectLevenshtein ==
  /\ call.op = "detectLevenshtein" /\ ~call.done
  /\ call' = [call EXCEPT !.done = TRUE,
                          !.ret = detectLevenshtein(call.testDomain, call.protectedDomain)]
  /\ UNCHANGED <<detectorVars, schedulerVars>>

ApplyNormalizeHomoglyphs ==
  /\ call.op = "normalizeHomoglyphs" /\ ~call.done
  /\ call' = [call EXCEPT !.done = TRUE, !.ret = normalizeHomoglyphs(call.domain),
                          !.again = normalizeHomoglyphs(normalizeHomoglyphs(call.domain))]
  /\ UNCHANGED <<detectorVars, schedulerVars>>

\* The tail of checkDomain (lines 240-249) on a list of detections.
ApplyCalculate ==
  /\ call.op = "calculate" /\ ~call.done
  /\ call' = [call EXCEPT !.done = TRUE,
                          !.severity = calculateSeverity(call.detections),
                          !.confidence = calculateConfidence(call.detections)]
  /\ UNCHANGED <<detectorVars, schedulerVars>>

ApplyAggregate ==
  /\ call.op = "aggregate" /\ ~call.done
  /\ call' = [call EXCEPT !.done = TRUE,
                          !.ret = aggregate(call.indicatorMatches, call.verdictSeverity)]
  /\ UNCHANGED <<detectorVars, schedulerVars>>

\* ------------------------------------------------------------------ specifications

\* The scan scheduler of one page.
Init == DetectorConstructed /\ call = [op |-> "none"] /\ SchedulerLoaded

Next ==
  \/ InitialTrigger
  \/ \E source \in PageSources, significant \in BOOLEAN : DomMutation(source, significant)
  \/ DebounceFires
  \/ RescanFires
  \/ \E significant \in BOOLEAN : FallbackFires(significant)
  \/ \E indicatorMatches \in ScanFindings, verdictSeverity \in ScanVerdicts,
        processingTime \in {"fast", "slow"}, timedOut \in BOOLEAN :
       ScanCompletes(indicatorMatches, verdictSeverity, processingTime, timedOut)
  \/ \E criticalFound \in BOOLEAN : BackgroundCompletes(criticalFound)
  \/ Tick

Spec == Init /\ [][Next]_vars

\* The detector object under its public methods.
InitDetector == DetectorConstructed /\ call = [op |-> "none"] /\ SchedulerLoaded

NextDetector ==
  \/ \E config \in InitConfigs, urlAllowlist \in Allowlists : Initialize(config, urlAllowlist)
  \/ \E config \in UpdateConfigs : UpdateConfig(config)
  \/ \E url \in TestUrls : CheckDomain(url)
  \/ Return

SpecDetector == InitDetector /\ [][NextDetector]_vars

\* detectLevenshtein on every pair of labels and every threshold.
InitLevenshtein ==
  /\ protectedDomains = <<>> /\ enabled = TRUE /\ algorithms = DefaultAlgorithms
  /\ deviationThreshold \in 1..MaxThreshold
  /\ call \in [op : {"detectLevenshtein"}, testDomain : LevLabels,
               protectedDomain : LevLabels, done : {FALSE}, ret : {Null}]
  /\ SchedulerLoaded

SpecLevenshtein == InitLevenshtein /\ [][ApplyDetectLevenshtein]_vars

\* normalizeHomoglyphs on every string, once and twice.
InitNormalize ==
  /\ DetectorConstructed
  /\ call \in [op : {"normalizeHomoglyphs"}, domain : NormStrings, done : {FALSE},
               ret : {<<>>}, again : {<<>>}]
  /\ SchedulerLoaded

SpecNormalize == InitNormalize /\ [][ApplyNormalizeHomoglyphs]_vars

\* calculateSeverity and calculateConfidence on every list of detections.
InitCalculate ==
  /\ DetectorConstructed
  /\ call \in [op : {"calculate"}, detections : DetectionLists, done : {FALSE},
               severity : {"none"}, confidence : {Rat(0, 1)}]
  /\ SchedulerLoaded

SpecCalculate == InitCalculate /\ [][ApplyCalculate]_vars

\* aggregate on every list of matched indicators and every verdict.
InitAggregate ==
  /\ DetectorConstructed
  /\ call \in [op : {"aggregate"}, indicatorMatches : IndicatorMatchLists,
               verdictSeverity : VerdictSeverities, done : {FALSE},
               ret : {[action |-> "none"]}]
  /\ SchedulerLoaded

SpecAggregate == InitAggregate /\ [][ApplyAggregate]_vars

\* ------------------------------------------------------------------ technique calls

\* Labels over keys that are QWERTY neighbours ("a", "s") and one that is
\* a neighbour of neither ("p").
TypoAlphabet == {"a", "s", "p"}

TypoLabels == StringsUpTo(TypoAlphabet, MaxLabelLen)

ApplyDetectTyposquat ==
  /\ call.op = "detectTyposquat" /\ ~call.done
  /\ call' = [call EXCEPT !.done = TRUE,
                          !.ret = detectTyposquat(call.testDomain, call.protectedDomain)]
  /\ UNCHANGED <<detectorVars, schedulerVars>>

\* detectTyposquat on every pair of labels.
InitTyposquat ==
  /\ DetectorConstructed
  /\ call \in [op : {"detectTyposquat"}, testDomain : TypoLabels,
               protectedDomain : TypoLabels, done : {FALSE}, ret : {Null}]
  /\ SchedulerLoaded

SpecTyposquat == InitTyposquat /\ [][ApplyDetectTyposquat]_vars

\* Labels over the letters of the vocabulary word "my" and a separator, and
\* the documented example.
ComboAlphabet == {"m", "y", "-"}

ComboLabels == StringsUpTo(ComboAlphabet, MaxLabelLen) \cup {L_microsoft, L_login_microsoft}

ApplyDetectCombosquat ==
  /\ call.op = "detectCombosquat" /\ ~call.done
  /\ call' = [call EXCEPT !.done = TRUE,
                          !.ret = detectCombosquat(call.testDomain, call.protectedDomain)]
  /\ UNCHANGED <<detectorVars, schedulerVars>>

\* detectCombosquat on every pair of labels.
InitCombosquat ==
  /\ DetectorConstructed
  /\ call \in [op : {"detectCombosquat"}, testDomain : ComboLabels,
               protectedDomain : ComboLabels, done : {FALSE}, ret : {Null}]
  /\ SchedulerLoaded

SpecCombosquat == InitCombosquat /\ [][ApplyDetectCombosquat]_vars

\* Labels over two plain letters and a look-alike of one of them, and the
\* documented example.
HomoglyphAlphabet == {"a", "o", "U+043E"}

HomoglyphLabels ==
  StringsUpTo(HomoglyphAlphabet, MaxLabelLen) \cup {L_microsoft, L_micr0soft_cyr}

ApplyDetectHomoglyph ==
  /\ call.op = "detectHomoglyph" /\ ~call.done
  /\ call' = [call EXCEPT !.done = TRUE,
                          !.ret = detectHomoglyph(call.testDomain, call.protectedDomain)]
  /\ UNCHANGED <<detectorVars, schedulerVars>>

\* detectHomoglyph on every pair of labels and every threshold.
InitHomoglyph ==
  /\ protectedDomains = <<>> /\ enabled = TRUE /\ algorithms = DefaultAlgorithms
  /\ deviationThreshold \in 1..MaxThreshold
  /\ call \in [op : {"detectHomoglyph"}, testDomain : HomoglyphLabels,
               protectedDomain : HomoglyphLabels, done : {FALSE}, ret : {Null}]
  /\ SchedulerLoaded

SpecHomoglyph == InitHomoglyph /\ [][ApplyDetectHomoglyph]_vars

\* ------------------------------------------------------------------ one accepted scan

\* The initial scan of a page after its gate: every classification of the
\* origin, every set of matching indicators, every squatting verdict.
InitEvaluation ==
  /\ DetectorConstructed
  /\ ScanAccepted
  /\ call \in [op : {"runProtection"}, phase : {"accepted"},
               domainTrust : DomainTrusts, relevant : BOOLEAN,
               matching : SUBSET IndicatorIds, verdictSeverity : ScanVerdicts,
               startedAt : {INITIAL_DELAY}, processed : {<<>>}, background : {<<>>},
               squattingChecks : {0}, action : {"none"}, actedAt : {NoTimer},
               criticalFound : {FALSE}, timedOut : {FALSE}, pendingPasses : {0},
               fromBackground : {FALSE}, earlierPass : {FALSE}]

NextEvaluation ==
  \/ ClassifyDomain
  \/ \E duration \in Durations : ProcessIndicator(duration)
  \/ \E processingTime \in {"fast", "slow"} : EvaluationCompletes(processingTime)
  \/ \E processingTime \in {"fast", "slow"} : MainThreadTimeout(processingTime)
  \/ BackgroundIndicator
  \/ BackgroundProcessingCompleted

SpecEvaluation == InitEvaluation /\ [][NextEvaluation]_vars

\* A scan that times out, its background pass, and the re-scans that follow,
\* each of which finds the threat if it is let through; every step that can
\* be taken is taken.
NextLateThreat ==
  \/ NextEvaluation
  \/ RescanDelayElapses
  \/ RescanFires
  \/ RescanCompletes

SpecLateThreat ==
  /\ InitEvaluation
  /\ [][NextLateThreat]_vars
  /\ WF_vars(NextEvaluation)
  /\ WF_vars(RescanDelayElapses)
  /\ WF_vars(RescanFires)
  /\ WF_vars(RescanCompletes)

\* The scans of a page and their background passes, one scan after another.
NextBackground ==
  \/ NextEvaluation
  \/ RescanStarts
  \/ RerunStarts
  \/ EarlierPassCompleted

SpecBackground == InitEvaluation /\ [][NextBackground]_vars

\* ------------------------------------------------------------------ specifications of the rule evaluations

\* Page sources over the letters of the terms.
ExclusionAlphabet == {"m", "f", "o", "s", "x"}

\* substring_with_exclusions on every page source, and on what is left of a
\* matching page source once a term is removed.
InitSubstringWithExclusions ==
  /\ DetectorConstructed
  /\ call \in [op : {"substring_with_exclusions"}, code_logic : ExclusionLogics,
               pageSource : StringsUpTo(ExclusionAlphabet, MaxContentLen),
               part : {0}, done : {FALSE}, ret : {FALSE}]
  /\ SchedulerLoaded

NextSubstringWithExclusions == ApplySubstringWithExclusions \/ RemoveTerm

SpecSubstringWithExclusions ==
  InitSubstringWithExclusions /\ [][NextSubstringWithExclusions]_vars

\* Page sources in both letter cases, with a space and a line break.
OrRegexAlphabet == {"v", "V", "a", " ", "\n"}

\* substring_or_regex on every page source and every rule.
InitSubstringOrRegex ==
  /\ DetectorConstructed
  /\ call \in [op : {"substring_or_regex"}, code_logic : OrRegexLogics,
               pageSource : StringsUpTo(OrRegexAlphabet, MaxContentLen),
               done : {FALSE}, ret : {[matches |-> FALSE, matchDetails |-> "none",
                                       regexRun |-> FALSE]}]
  /\ SchedulerLoaded

SpecSubstringOrRegex == InitSubstringOrRegex /\ [][ApplySubstringOrRegex]_vars

\* Page sources over the letters of the two rules, in both cases.
IndicatorAlphabet == {"c", "C", "s", "n", "v", "a", " ", "\n"}

\* The two code-driven rules on every page source.
InitIndicator ==
  /\ DetectorConstructed
  /\ call \in [op : {"indicator"}, indicator : {phi_012_suspicious_resources, phi_003},
               pageSource : StringsUpTo(IndicatorAlphabet, MaxContentLen),
               done : {FALSE}, codeDriven : {FALSE}, byPattern : {FALSE}]
  /\ SchedulerLoaded

SpecIndicator == InitIndicator /\ [][ApplyIndicator]_vars

\* The session storage of a browser without native chrome.storage.session,
\* through the module and through the inline script, in Firefox and in a
\* Chrome without session storage; local storage is empty at the start.
InitSession ==
  /\ DetectorConstructed
  /\ call \in [op : {"session"}, impl : {"module", "inline"}, isFirefox : BOOLEAN,
               local : {EmptyObject}, sessionKeys : {{}}, asked : {EmptyObject},
               calls : {0},
               last : {[method |-> "none", key |-> <<>>, outcome |-> "none",
                        result |-> EmptyObject]}]
  /\ SchedulerLoaded

NextSession ==
  \/ \E key \in SessionKeyNames, value \in SessionValues : SessionSet(key, value)
  \/ \E key \in SessionKeyNames : SessionGet(key)
  \/ \E key \in SessionKeyNames : SessionRemove(key)

SpecSession == InitSession /\ [][NextSession]_vars

\* ------------------------------------------------------------------ checkDomain under every configuration

HomoglyphOnly ==
  [levenshtein |-> FALSE, homoglyph |-> TRUE, typosquat |-> FALSE, combosquat |-> FALSE]

\* Labels over "l", its look-alike "1" and another letter.
SquatAlphabet == {"l", "1", "m"}

SquatUrls ==
  {Host(<<label, L_com>>) : label \in StringsUpTo(SquatAlphabet, MaxLabelLen) \ {<<>>}}
  \cup TestUrls

\* A detector configured with the documented brand list, every threshold
\* from 1 on and a wide one, and all techniques or the homoglyph one alone.
InitSquatting ==
  /\ protectedDomains = BrandList
  /\ enabled = TRUE
  /\ deviationThreshold \in (1..MaxThreshold) \cup {WideThreshold}
  /\ algorithms \in {DefaultAlgorithms, HomoglyphOnly}
  /\ call = [op |-> "none"]
  /\ SchedulerLoaded

NextSquatting ==
  \/ \E url \in SquatUrls : CheckDomain(url)
  \/ Return

SpecSquatting == InitSquatting /\ [][NextSquatting]_vars

\* ------------------------------------------------------------------ typosquat verdicts

WithoutLevenshtein == [DefaultAlgorithms EXCEPT !.levenshtein = FALSE]

TypoHosts == {Host(<<label, L_com>>) : label \in TypoLabels \ {<<>>}}

\* Protected labels over two neighbouring keys.
TypoProtectedHosts ==
  {Host(<<label, L_com>>) : label \in StringsUpTo({"a", "s"}, MaxLabelLen) \ {<<>>}}

\* A detector protecting one short domain, with every threshold from 1 on
\* and a wide one, and the Levenshtein technique on or off.
InitTypoVerdict ==
  /\ protectedDomains \in {<<Render(url)>> : url \in TypoProtectedHosts}
  /\ enabled = TRUE
  /\ deviationThreshold \in (1..MaxThreshold) \cup {WideThreshold}
  /\ algorithms \in {DefaultAlgorithms, WithoutLevenshtein}
  /\ call = [op |-> "none"]
  /\ SchedulerLoaded

NextTypoVerdict ==
  \/ \E url \in TypoHosts : CheckDomain(url)
  \/ Return

SpecTypoVerdict == InitTypoVerdict /\ [][NextTypoVerdict]_vars

\* ------------------------------------------------------------------ combosquat verdicts

ComboHosts == {Host(<<label, L_com>>) : label \in ComboLabels \ {<<>>}}

\* A detector protecting one domain, with the constructor's threshold and
\* techniques.
InitComboVerdict ==
  /\ protectedDomains \in {<<Render(url)>> : url \in ComboHosts}
  /\ enabled = TRUE
  /\ deviationThreshold = 2
  /\ algorithms = DefaultAlgorithms
  /\ call = [op |-> "none"]
  /\ SchedulerLoaded

NextComboVerdict ==
  \/ \E url \in ComboHosts : CheckDomain(url)
  \/ Return

SpecComboVerdict == InitComboVerdict /\ [][NextComboVerdict]_vars
====
